---- MODULE Spec2Model ----
(***************************************************************************)
(* The conversational tool-calling orchestrator of calendar-ai             *)
(* (src/src/app/actions.tsx): the thread store, the configuration cache,   *)
(* the clarification gate, the tool dispatcher and the background task of  *)
(* submitMessage with its streams.                                         *)
(*                                                                         *)
(* JavaScript runs one continuation at a time: every action below is the   *)
(* code that runs between two awaits of a request (or of the shared        *)
(* configuration load), so the interleavings of the model are those of the *)
(* event loop.                                                             *)
(***************************************************************************)
EXTENDS Integers, Sequences, FiniteSets, TLC

VARIABLES
  conversationStore,      \* Map<string, any[]>: thread id -> stored history
  assistantConfigPromise, \* "null" | "pending" | "fulfilled" | "rejected"
  configLoads,            \* number of underlying loads (sets of file reads) started
  task,                   \* per request: the state of submitMessage and its background task
  env,                    \* what is left of the environment's bounded behaviour
  gate,                   \* inputs and result of one isolated evaluation of the gate
  events,                 \* client event store: EventInput[]
  cachedRanges,           \* client event store: { start, end }[]
  currentStart,           \* client event store: start of the range on display
  currentEnd,             \* client event store: end of the range on display
  refetch,                \* per refetchEvents call: its position and locals
  provider                \* the events the calendar provider holds

clientVars == <<events, cachedRanges, currentStart, currentEnd, refetch, provider>>

vars == <<conversationStore, assistantConfigPromise, configLoads, task, env, gate,
          clientVars>>

----------------------------------------------------------------------------
(* Program constants *)

MAX_TOOL_ROUNDS == 8

HISTORY_LIMIT == 30

(* Bounds of the model *)

MaxRequests == 2

MaxWideRounds == 2

MaxSharedRounds == 1

MaxGateCalls == 2

MaxRefetchCalls == 2

MaxProviderChanges == 1

Reqs == 1..MaxRequests

----------------------------------------------------------------------------
(* Values *)

Absent == "<absent>"

NoId == "<no id>"

NoCall == [id |-> NoId, name |-> "<none>",
           arguments |-> [kind |-> "undefined", event_id |-> Absent,
                          start_time |-> Absent, end_time |-> Absent,
                          summary |-> Absent]]

(* The raw argument payload of a tool call: `arguments` is undefined, is a  *)
(* string that is not JSON, is the JSON text null, or is a JSON object.  A  *)
(* field of the object is absent, the empty string, or a usable value "v".  *)
RawArgs(kind, e, s, n, t) ==
  [kind |-> kind, event_id |-> e, start_time |-> s, end_time |-> n, summary |-> t]

ArgsUndefined == RawArgs("undefined", Absent, Absent, Absent, Absent)
ArgsMalformed == RawArgs("malformed", Absent, Absent, Absent, Absent)
ArgsNull      == RawArgs("null", Absent, Absent, Absent, Absent)
ArgsObject(e, s, n, t) == RawArgs("object", e, s, n, t)

ToolCall(id, name, arguments) == [id |-> id, name |-> name, arguments |-> arguments]

MutationTools == {"schedule_event", "edit_event", "delete_event"}

KnownTools == MutationTools \cup {"get_calendar"}

(* TimeRange | null *)
NullRange == [isNull |-> TRUE, start |-> 0, end |-> 0]

TimeRange(s, e) == [isNull |-> FALSE, start |-> s, end |-> e]

----------------------------------------------------------------------------
(* Argument codec *)

(* parseArgs: {} for a missing payload and for one that is not JSON,       *)
(* otherwise what JSON.parse returns: the object, or null for "null".      *)
parseArgs(args) ==
  IF args.kind \in {"undefined", "malformed"}
    THEN [isNull |-> FALSE, event_id |-> Absent, start_time |-> Absent,
          end_time |-> Absent, summary |-> Absent]
    ELSE [isNull |-> args.kind = "null", event_id |-> args.event_id,
          start_time |-> args.start_time, end_time |-> args.end_time,
          summary |-> args.summary]

(* JavaScript truthiness of a field: undefined and "" are falsy. *)
Truthy(v) == v # Absent /\ v # ""

----------------------------------------------------------------------------
(* Questions.  A question is a sequence of phrases, joined by single       *)
(* spaces.  Occurrences(p) are the pattern literals that occur in phrase p *)
(* after lower-casing it for the patterns with the i flag.                 *)
(*                                                                         *)
(* The Chinese literals of the source are written in pinyin; by code       *)
(* points:                                                                 *)
(*   xianbuyao-caozuo        5148 4E0D 8981 64CD 4F5C                      *)
(*   xianbie-caozuo          5148 522B 64CD 4F5C                           *)
(*   xianbuyao-anpai         5148 4E0D 8981 5B89 6392                      *)
(*   xianbuyao-chuangjian    5148 4E0D 8981 521B 5EFA                      *)
(*   xianbu-chuangjian       5148 4E0D 521B 5EFA                           *)
(*   buyao-zhixing           4E0D 8981 6267 884C                           *)
(*   xian-hewo-hudong        5148 548C 6211 4E92 52A8                      *)
(*   anpai                   5B89 6392                                     *)
(*   yuyue                   9884 7EA6                                     *)
(*   fuxi                    590D 4E60                                     *)
(*   zhunbei-mianshi         51C6 5907 9762 8BD5                           *)
(*   mianshi-zhunbei         9762 8BD5 51C6 5907                           *)
(*   zuoyou                  5DE6 53F3                                     *)
(*   zuijin                  6700 8FD1                                     *)
(*   weilai-zheduan-shijian  672A 6765 8FD9 6BB5 65F6 95F4                 *)
(*   zheduan-shijian         8FD9 6BB5 65F6 95F4                           *)
(*   youkong                 6709 7A7A                                     *)
(*   chou-shijian            62BD 65F6 95F4                                *)
(*   dagai                   5927 6982                                     *)
(*   chabuduo                5DEE 4E0D 591A                                *)

Lower(p) ==
  CASE p = "Schedule" -> "schedule"
    [] p = "Don't" -> "don't"
    [] p = "Soon" -> "soon"
    [] OTHER -> p

Occurrences(p) ==
  CASE p = "xianbuyao-anpai" -> {"xianbuyao-anpai", "anpai"}
    [] p = "weilai-zheduan-shijian" -> {"weilai-zheduan-shijian", "zheduan-shijian"}
    [] OTHER -> {p}

TestLiteral(lit, q) == \E i \in 1..Len(q) : lit \in Occurrences(q[i])

TestLiteralI(lit, q) == \E i \in 1..Len(q) : lit \in Occurrences(Lower(q[i]))

DontVerbs == {"operate", "execute", "schedule", "book", "create"}

(* /don't\s+(?:operate|execute|schedule|book|create)/i *)
TestDontVerb(q) ==
  \E i \in 1..(Len(q) - 1) : Lower(q[i]) = "don't" /\ Lower(q[i + 1]) \in DontVerbs

noActionPatterns ==
  {"xianbuyao-caozuo", "xianbie-caozuo", "xianbuyao-anpai", "xianbuyao-chuangjian", "xianbu-chuangjian", "buyao-zhixing",
   "xian-hewo-hudong"}

MatchesNoAction(q) ==
  (\E lit \in noActionPatterns : TestLiteral(lit, q)) \/ TestDontVerb(q)

schedulingIntentPatterns == {"anpai", "yuyue", "fuxi", "zhunbei-mianshi", "mianshi-zhunbei"}

schedulingIntentPatternsI == {"schedule", "book"}

hasSchedulingIntent(q) ==
  \/ \E lit \in schedulingIntentPatterns : TestLiteral(lit, q)
  \/ \E lit \in schedulingIntentPatternsI : TestLiteralI(lit, q)

ambiguousPatterns ==
  {"zuoyou", "zuijin", "weilai-zheduan-shijian", "zheduan-shijian", "youkong", "chou-shijian", "dagai", "chabuduo"}

ambiguousPatternsI == {"around", "sometime", "soon"}

hasAmbiguousTime(q) ==
  \/ \E lit \in ambiguousPatterns : TestLiteral(lit, q)
  \/ \E lit \in ambiguousPatternsI : TestLiteralI(lit, q)

----------------------------------------------------------------------------
(* Clarification gate *)

(* hasMutationTool counting every tool. *)
hasAnyTool(calls) == Len(calls) > 0

hasMutationTool(calls) == \E i \in 1..Len(calls) : calls[i].name \in MutationTools

(* SufficientArgs asking delete_event for the times and the title too. *)
SufficientArgsSameForAll(call) ==
  LET args == parseArgs(call.arguments) IN
  IF call.name \notin MutationTools THEN "true"
  ELSE IF args.isNull THEN "throws"
  ELSE IF call.name = "schedule_event"
    THEN IF Truthy(args.start_time) /\ Truthy(args.end_time) /\ Truthy(args.summary)
           THEN "true" ELSE "false"
  ELSE IF Truthy(args.event_id) /\ Truthy(args.start_time)
          /\ Truthy(args.end_time) /\ Truthy(args.summary)
    THEN "true" ELSE "false"

(* The callback of executableToolCalls.every: "true", "false", or "throws" *)
(* when a property of the parsed value null is read.                       *)
SufficientArgs(call) ==
  LET args == parseArgs(call.arguments) IN
  IF call.name \notin MutationTools THEN "true"
  ELSE IF args.isNull THEN "throws"
  ELSE IF call.name = "schedule_event"
    THEN IF Truthy(args.start_time) /\ Truthy(args.end_time) /\ Truthy(args.summary)
           THEN "true" ELSE "false"
  ELSE IF call.name = "edit_event"
    THEN IF Truthy(args.event_id) /\ Truthy(args.start_time)
            /\ Truthy(args.end_time) /\ Truthy(args.summary)
           THEN "true" ELSE "false"
  ELSE IF Truthy(args.event_id) THEN "true" ELSE "false"

(* Array.prototype.every stops at the first call whose callback does not   *)
(* return true.                                                             *)
hasSufficientMutationArgs(calls) ==
  LET stops == {i \in 1..Len(calls) : SufficientArgs(calls[i]) # "true"} IN
  IF stops = {} THEN "true"
  ELSE LET first == CHOOSE i \in stops : \A j \in stops : i <= j
       IN SufficientArgs(calls[first])

(* The gate looking at the arguments before the no-action phrases. *)
shouldAskSufficiencyFirst(question, extractedRange, executableToolCalls) ==
  IF ~hasMutationTool(executableToolCalls) THEN "false"
  ELSE LET sufficient == hasSufficientMutationArgs(executableToolCalls) IN
       IF sufficient = "throws" THEN "throws"
       ELSE IF sufficient = "true" THEN "false"
       ELSE IF MatchesNoAction(question) THEN "true"
       ELSE IF hasSchedulingIntent(question)
               /\ (hasAmbiguousTime(question) \/ extractedRange.isNull)
         THEN "true" ELSE "false"

(* The boolean the gate returns, or "throws". *)
shouldAskClarificationBeforeMutation(question, extractedRange, executableToolCalls) ==
  IF ~hasMutationTool(executableToolCalls) THEN "false"
  ELSE IF MatchesNoAction(question) THEN "true"
  ELSE LET sufficient == hasSufficientMutationArgs(executableToolCalls) IN
       IF sufficient = "throws" THEN "throws"
       ELSE IF sufficient = "true" THEN "false"
       ELSE IF hasSchedulingIntent(question)
               /\ (hasAmbiguousTime(question) \/ extractedRange.isNull)
         THEN "true" ELSE "false"

buildClarificationPrompt ==
  "clarification prompt: five questions"

----------------------------------------------------------------------------
(* Messages of a history.  One record shape for the four roles:            *)
(*   user(content), assistant(content [, tool_calls | function_call]),     *)
(*   tool(tool_call_id, content), function(name, content).                 *)
(* content is a sequence of strings: the phrases of the question, or the   *)
(* one text of an assistant or result message.                             *)

Msg(role, content, tool_calls, function_call, tool_call_id, name) ==
  [role |-> role, content |-> content, tool_calls |-> tool_calls,
   function_call |-> function_call, tool_call_id |-> tool_call_id, name |-> name]

UserMsg(q) == Msg("user", q, <<>>, NoCall, NoId, "")

AssistantMsg(content) == Msg("assistant", <<content>>, <<>>, NoCall, NoId, "")

AssistantToolCallsMsg(content, toolCalls) ==
  Msg("assistant", <<content>>, toolCalls, NoCall, NoId, "")

AssistantFunctionCallMsg(content, legacyFunctionCall) ==
  Msg("assistant", <<content>>, <<>>, legacyFunctionCall, NoId, "")

ToolMsg(id, output) == Msg("tool", <<output>>, <<>>, NoCall, id, "")

FunctionMsg(name, output) == Msg("function", <<output>>, <<>>, NoCall, NoId, name)

(* generateId(): a fresh identifier, different from every id the model     *)
(* assigns; n counts the ids request r has drawn so far.                   *)
generateId(r, n) == "generated-" \o ToString(r) \o "-" \o ToString(n)

----------------------------------------------------------------------------
(* Thread store *)

StoreGet(store, id) == IF id \in DOMAIN store THEN store[id] ELSE <<>>

StoreSet(store, id, h) ==
  [k \in (DOMAIN store) \cup {id} |-> IF k = id THEN h ELSE store[k]]

(* SliceLast cutting one place too early: it keeps n + 1 elements. *)
SliceLastOffByOne(h, n) ==
  IF Len(h) <= n + 1 THEN h ELSE SubSeq(h, Len(h) - n, Len(h))

(* Array.prototype.slice(-n): the last n elements, all of them when fewer. *)
SliceLast(h, n) ==
  IF Len(h) <= n THEN h ELSE SubSeq(h, Len(h) - n + 1, Len(h))

----------------------------------------------------------------------------
(* Time range extractor *)

(* A date string of the model's JSON: missing, null, "", not a date, or a  *)
(* date: an instant written with a UTC offset.                             *)
DateStr(kind, instant, offset) == [kind |-> kind, instant |-> instant, offset |-> offset]

(* The outcome of the extractor's completion request. *)
ExtractReply(kind, start, end) == [kind |-> kind, start |-> start, end |-> end]

(* new Date(s).getTime(): the instant, whatever the offset it was written  *)
(* with; toISOString() writes that instant in UTC.                         *)
IsDate(d) == d.kind = "date"

(* What a call of the extractor comes to: it returns a range (or null) or  *)
(* it throws.                                                              *)
Returns(range) == [threw |-> FALSE, range |-> range]

Throws == [threw |-> TRUE, range |-> NullRange]

(* The extractor without the try around its completion request. *)
extractTimeRangeUncaught(reply) ==
  IF reply.kind \in {"timeout", "transport", "no_choices_field"} THEN Throws
  ELSE IF reply.kind \in {"no_choice", "no_content"} THEN Returns(NullRange)
  ELSE IF reply.kind \in {"malformed", "json_null"} THEN Returns(NullRange)
  ELSE IF reply.start.kind \in {"missing", "null", "empty"}
          \/ reply.end.kind \in {"missing", "null", "empty"} THEN Returns(NullRange)
  ELSE IF ~IsDate(reply.start) \/ ~IsDate(reply.end) THEN Returns(NullRange)
  ELSE IF reply.end.instant <= reply.start.instant THEN Returns(NullRange)
  ELSE Returns(TimeRange(reply.start.instant, reply.end.instant))

(* The completion request fails (timeout, transport): caught, null.  The   *)
(* response body has no choices array (no_choices_field):                  *)
(* response.choices[0] is read outside both try blocks and throws.  An     *)
(* empty choices array or a message without content: null.  A content that *)
(* is not JSON, or JSON null: caught, null.  A start or end that is        *)
(* missing, null or empty, or no date: null.  end <= start: null.          *)
extractTimeRangeFromQuestion(reply) ==
  IF reply.kind \in {"timeout", "transport"} THEN Returns(NullRange)
  ELSE IF reply.kind = "no_choices_field" THEN Throws
  ELSE IF reply.kind \in {"no_choice", "no_content"} THEN Returns(NullRange)
  ELSE IF reply.kind \in {"malformed", "json_null"} THEN Returns(NullRange)
  ELSE IF reply.start.kind \in {"missing", "null", "empty"}
          \/ reply.end.kind \in {"missing", "null", "empty"} THEN Returns(NullRange)
  ELSE IF ~IsDate(reply.start) \/ ~IsDate(reply.end) THEN Returns(NullRange)
  ELSE IF reply.end.instant <= reply.start.instant THEN Returns(NullRange)
  ELSE Returns(TimeRange(reply.start.instant, reply.end.instant))

(* No reply yet. *)
NoReply == ExtractReply("none", DateStr("missing", 0, 0), DateStr("missing", 0, 0))

----------------------------------------------------------------------------
(* The state of one request *)

StreamNames ==
  {"status", "textUI", "gui", "text", "threadId", "refetchJobs", "refetchRange"}

(* No result of executeCalendarTool is waiting to be recorded. *)
NoResult == [output |-> "", didMutate |-> FALSE, gui |-> "", provider |-> ""]

(* awaited is the state of the configuration promise the request awaits,   *)
(* result what executeCalendarTool returned and the loop has not taken up. *)
IdleTask ==
  [pc |-> "idle", awaited |-> "", result |-> NoResult, question |-> <<>>, threadId |-> "", extractedRange |-> NullRange,
   history |-> <<>>, round |-> 0, refetchJobs |-> 0,
   executableToolCalls |-> <<>>, usesToolCalls |-> FALSE, toolIdx |-> 0, ids |-> 0,
   status |-> <<>>, textStream |-> <<>>, gui |-> <<>>, threadIdStream |-> "",
   refetchJobsStream |-> <<>>, refetchRangeStream |-> <<>>,
   done |-> [s \in StreamNames |-> 0], lateWrites |-> 0,
   outcome |-> "", returned |-> "",
   modelCalls |-> 0, executed |-> <<>>, roundStart |-> 0, responses |-> <<>>,
   extractReply |-> NoReply]

(* Stream writes.  A write to a stream that is already done is counted.    *)
Late(t, s) == IF t.done[s] > 0 THEN 1 ELSE 0

StatusUpdate(t, label) ==
  [t EXCEPT !.status = Append(@, label), !.lateWrites = @ + Late(t, "status")]

TextAppend(t, text) ==
  [t EXCEPT !.textStream = Append(@, text), !.lateWrites = @ + Late(t, "text")]

GuiWrite(t, op, what) ==
  [t EXCEPT !.gui = Append(@, <<op, what>>), !.lateWrites = @ + Late(t, "gui")]

RefetchJobsUpdate(t, n) ==
  [t EXCEPT !.refetchJobsStream = Append(@, n),
            !.lateWrites = @ + Late(t, "refetchJobs")]

RefetchRangeUpdate(t, range) ==
  [t EXCEPT !.refetchRangeStream = Append(@, range),
            !.lateWrites = @ + Late(t, "refetchRange")]

(* Finally without refetchRangeStream.done(). *)
FinallyWithoutRange(t) ==
  [t EXCEPT !.done = [s \in StreamNames |->
                        IF s = "refetchRange" THEN @[s] ELSE @[s] + 1],
            !.pc = "done"]

(* The finally block: every stream is completed. *)
Finally(t) ==
  [t EXCEPT !.done = [s \in StreamNames |-> @[s] + 1], !.pc = "done"]

(* The catch block without the status update. *)
CatchBlockWithoutStatus(t) ==
  TextAppend([t EXCEPT !.outcome = "error"], "Error: message")

(* The catch block resetting the gui stream. *)
CatchBlockClearingGui(t) ==
  TextAppend(StatusUpdate([t EXCEPT !.outcome = "error", !.gui = <<>>],
                          "conversation.error"),
             "Error: message")

(* The catch block of the background task. *)
CatchBlock(t) ==
  TextAppend(StatusUpdate([t EXCEPT !.outcome = "error"], "conversation.error"),
             "Error: message")

----------------------------------------------------------------------------
(* Tool dispatcher *)

ValidDate(v) == Truthy(v)

(* Whether executeCalendarTool reaches a call of the calendar provider:    *)
(* an unsupported name, a parsed value null (destructuring throws) and     *)
(* get_calendar with a start or end that is no date (toISOString throws)   *)
(* return before any provider call.                                        *)
CallsProvider(call) ==
  LET args == parseArgs(call.arguments) IN
  /\ call.name \in KnownTools
  /\ ~args.isNull
  /\ call.name = "get_calendar" => ValidDate(args.start_time) /\ ValidDate(args.end_time)

(* Whether executeCalendarTool awaits resolvePrimaryCalendarTimeZone (a    *)
(* calendars.get whose failure is caught and answered with 'UTC') before  *)
(* its provider call: edit_event always, schedule_event when the call      *)
(* names no time zone, which no call of this model does.                   *)
ResolvesTimeZone(call) ==
  CallsProvider(call) /\ call.name \in {"schedule_event", "edit_event"}

(* executeCalendarTool reporting a mutation for an unsupported tool. *)
executeCalendarToolUnknownMutates(call, providerOk) ==
  IF call.name \notin KnownTools
    THEN [output |-> "error: Unsupported tool", didMutate |-> TRUE,
          gui |-> "Unsupported tool", provider |-> "not called"]
  ELSE IF ~CallsProvider(call)
    THEN [output |-> "error: detail", didMutate |-> FALSE,
          gui |-> "Tool action failed", provider |-> "not called"]
  ELSE IF ~providerOk
    THEN [output |-> "error: detail", didMutate |-> FALSE,
          gui |-> "Tool action failed", provider |-> "failed"]
  ELSE [output |-> "data", didMutate |-> call.name \in MutationTools,
        gui |-> call.name, provider |-> "succeeded"]

(* executeCalendarTool reporting a mutation for every call that reached    *)
(* the provider.                                                           *)
executeCalendarToolCallMutates(call, providerOk) ==
  IF call.name \notin KnownTools
    THEN [output |-> "error: Unsupported tool", didMutate |-> FALSE,
          gui |-> "Unsupported tool", provider |-> "not called"]
  ELSE IF ~CallsProvider(call)
    THEN [output |-> "error: detail", didMutate |-> FALSE,
          gui |-> "Tool action failed", provider |-> "not called"]
  ELSE IF ~providerOk
    THEN [output |-> "error: detail", didMutate |-> call.name \in MutationTools,
          gui |-> "Tool action failed", provider |-> "failed"]
  ELSE [output |-> "data", didMutate |-> call.name \in MutationTools,
        gui |-> call.name, provider |-> "succeeded"]

(* executeCalendarTool: { output, didMutate }; providerOk is the outcome   *)
(* of the provider call when one is made, and provider tells whether one   *)
(* was made and how it ended.                                              *)
executeCalendarTool(call, providerOk) ==
  IF call.name \notin KnownTools
    THEN [output |-> "error: Unsupported tool", didMutate |-> FALSE,
          gui |-> "Unsupported tool", provider |-> "not called"]
  ELSE IF ~CallsProvider(call)
    THEN [output |-> "error: detail", didMutate |-> FALSE,
          gui |-> "Tool action failed", provider |-> "not called"]
  ELSE IF ~providerOk
    THEN [output |-> "error: detail", didMutate |-> FALSE,
          gui |-> "Tool action failed", provider |-> "failed"]
  ELSE [output |-> "data", didMutate |-> call.name \in MutationTools,
        gui |-> call.name, provider |-> "succeeded"]

----------------------------------------------------------------------------
(* Orchestration loop: the code of the background task between two awaits. *)
(* A task whose pc is "exit" has left the for loop normally; one whose pc  *)
(* is "catch" has thrown inside the try block.                             *)

(* StartRound that answers with a fallback text when the budget is used up. *)
StartRoundWithFallback(t) ==
  IF t.round < MAX_TOOL_ROUNDS
    THEN [StatusUpdate(t, "conversation.model_round_" \o ToString(t.round + 1))
            EXCEPT !.pc = "model", !.modelCalls = @ + 1,
                   !.roundStart = Len(t.executed)]
    ELSE [TextAppend(t, "unable to complete")
            EXCEPT !.history = Append(@, AssistantMsg("unable to complete")),
                   !.pc = "exit",
                   !.outcome = IF @ = "" THEN "exhausted" ELSE @]

(* StartRound with round <= MAX_TOOL_ROUNDS as the loop condition. *)
StartRoundInclusive(t) ==
  IF t.round <= MAX_TOOL_ROUNDS
    THEN [StatusUpdate(t, "conversation.model_round_" \o ToString(t.round + 1))
            EXCEPT !.pc = "model", !.modelCalls = @ + 1,
                   !.roundStart = Len(t.executed)]
    ELSE [t EXCEPT !.pc = "exit",
                   !.outcome = IF @ = "" THEN "exhausted" ELSE @]

(* The head of the for loop: leave it when the budget is used up, else     *)
(* update the status and issue the round's completion request.             *)
StartRound(t) ==
  IF t.round < MAX_TOOL_ROUNDS
    THEN [StatusUpdate(t, "conversation.model_round_" \o ToString(t.round + 1))
            EXCEPT !.pc = "model", !.modelCalls = @ + 1,
                   !.roundStart = Len(t.executed)]
    ELSE [t EXCEPT !.pc = "exit",
                   !.outcome = IF @ = "" THEN "exhausted" ELSE @]

(* After loadAssistantConfig: read the thread's history, push the user's   *)
(* message, enter the loop.                                                *)
BeginLoop(t, store) ==
  StartRound([t EXCEPT !.history = Append(StoreGet(store, t.threadId),
                                          UserMsg(t.question)),
                       !.refetchJobs = 0, !.round = 0])

(* CountMutation without the test of didMutate. *)
CountMutationAlways(t, result) ==
  RefetchJobsUpdate([t EXCEPT !.refetchJobs = @ + 1], t.refetchJobs + 1)

(* CountMutation that counts only in a round requested as a tool-call list. *)
CountMutationToolCallsOnly(t, result) ==
  IF result.didMutate /\ t.usesToolCalls
    THEN RefetchJobsUpdate([t EXCEPT !.refetchJobs = @ + 1], t.refetchJobs + 1)
    ELSE t

(* if (result.didMutate) { refetchJobs++; refetchJobsStream.update(...) } *)
CountMutation(t, result) ==
  IF result.didMutate
    THEN RefetchJobsUpdate([t EXCEPT !.refetchJobs = @ + 1], t.refetchJobs + 1)
    ELSE t

(* NextCall leaving the calls of the round after a failed one. *)
NextCallUnlessFailed(t, result) ==
  IF result.output = "data" THEN t.toolIdx + 1 ELSE Len(t.executableToolCalls) + 1

(* NextCall that passes over the call after the one that returned. *)
NextCallSkipping(t, result) == t.toolIdx + 2

(* for (const toolCall of executableToolCalls): on to the next call,       *)
(* whatever the result of this one.                                        *)
NextCall(t, result) == t.toolIdx + 1

(* The end of executeCalendarTool: the dispatcher updates its progress     *)
(* event and returns; the loop, which awaits it, goes on in a later turn.  *)
ReturnResult(t, result) ==
  [GuiWrite(t, "update", result.gui) EXCEPT !.result = result, !.pc = "result"]

(* What follows "await executeCalendarTool" for call number toolIdx: the   *)
(* mutation counter and the result message.  executed logs what the        *)
(* dispatcher returned.                                                    *)
RecordResult(r, t, call, result) ==
  LET t1 == [t EXCEPT !.executed = Append(@, [name |-> call.name,
                                              output |-> result.output,
                                              didMutate |-> result.didMutate,
                                              provider |-> result.provider]),
                      !.result = NoResult]
      t2 == CountMutation(t1, result)
  IN  IF t.usesToolCalls
        THEN IF call.id # NoId
               THEN [t2 EXCEPT !.history = Append(@, ToolMsg(call.id, result.output)),
                               !.toolIdx = NextCall(t, result)]
               ELSE [t2 EXCEPT !.history =
                                  Append(@, ToolMsg(generateId(r, t.ids + 1),
                                                    result.output)),
                               !.ids = @ + 1, !.toolIdx = NextCall(t, result)]
        ELSE [t2 EXCEPT !.history = Append(@, FunctionMsg(call.name, result.output)),
                        !.toolIdx = NextCall(t, result)]

(* The inner for loop at call number toolIdx: executeCalendarTool is       *)
(* called and awaited.  The dispatcher appends its progress event and      *)
(* either awaits the provider (pc "timezone" for the time zone of the      *)
(* primary calendar, pc "tool" for the call itself) or returns without a   *)
(* provider call (pc "result"); after the last call the next round starts. *)
Dispatch(r, t) ==
  IF t.toolIdx > Len(t.executableToolCalls)
    THEN StartRound([t EXCEPT !.round = @ + 1])
    ELSE LET call == t.executableToolCalls[t.toolIdx]
             t1 == GuiWrite(t, "append", call.name)
         IN  IF ResolvesTimeZone(call)
               THEN [t1 EXCEPT !.pc = "timezone"]
             ELSE IF CallsProvider(call)
               THEN [t1 EXCEPT !.pc = "tool"]
               ELSE ReturnResult(t1, executeCalendarTool(call, FALSE))

(* A completion response: no message at all, or a message with content,    *)
(* tool_calls and function_call (any of them missing).                     *)
Response(present, content, toolCalls, legacyFunctionCall) ==
  [present |-> present, content |-> content, tool_calls |-> toolCalls,
   function_call |-> legacyFunctionCall]

(* Clarify after the round's request was recorded in the history. *)
ClarifyKeepingRequest(t, resp) ==
  [TextAppend(t, buildClarificationPrompt)
     EXCEPT !.history =
              @ \o <<IF Len(resp.tool_calls) > 0
                       THEN AssistantToolCallsMsg(resp.content, resp.tool_calls)
                       ELSE AssistantFunctionCallMsg(resp.content, resp.function_call),
                     AssistantMsg(buildClarificationPrompt)>>,
            !.pc = "exit", !.outcome = "clarification"]

(* Clarify without the prompt in the history. *)
ClarifyTextOnly(t, resp) ==
  [TextAppend(t, buildClarificationPrompt)
     EXCEPT !.pc = "exit", !.outcome = "clarification"]

(* The deferral branch: the clarification prompt is the assistant's turn;  *)
(* the tool-call requests of the round are dropped.                        *)
Clarify(t, resp) ==
  [TextAppend(t, buildClarificationPrompt)
     EXCEPT !.history = Append(@, AssistantMsg(buildClarificationPrompt)),
            !.pc = "exit", !.outcome = "clarification"]

(* ModelEmptyResponse that also records the fallback text in the history. *)
ModelEmptyResponseRecorded(t) ==
  [TextAppend(t, "No response from model.")
     EXCEPT !.history = Append(@, AssistantMsg("No response from model.")),
            !.pc = "exit", !.outcome = "empty"]

(* The completion has no message (choices[0]?.message is undefined): the   *)
(* fallback text goes to the text stream and the loop is left; nothing is  *)
(* pushed to the history.                                                  *)
ModelEmptyResponse(t) ==
  [TextAppend(t, "No response from model.")
     EXCEPT !.pc = "exit", !.outcome = "empty"]

(* FinalResponse without the push to the history. *)
FinalResponseUnrecorded(t, resp) ==
  LET content == IF resp.content = "" THEN "No response from model."
                                      ELSE resp.content
  IN  [TextAppend(t, content) EXCEPT !.pc = "exit", !.outcome = "final"]

(* A message without tool calls and without function call: its content, or *)
(* the fallback text when the content is missing or empty, goes to the     *)
(* text stream and, as an assistant message, to the history; the loop is   *)
(* left.                                                                   *)
FinalResponse(t, resp) ==
  LET content == IF resp.content = "" THEN "No response from model."
                                      ELSE resp.content
  IN  [TextAppend(t, content)
         EXCEPT !.history = Append(@, AssistantMsg(content)),
                !.pc = "exit", !.outcome = "final"]

(* The body of a round after the completion request returned. *)
ProcessResponse(r, t, resp) ==
  IF ~resp.present THEN ModelEmptyResponse(t)
  ELSE IF Len(resp.tool_calls) = 0 /\ resp.function_call = NoCall
    THEN FinalResponse(t, resp)
  ELSE LET executable == IF Len(resp.tool_calls) > 0
                           THEN resp.tool_calls
                           ELSE <<ToolCall(NoId, resp.function_call.name,
                                           resp.function_call.arguments)>>
           defer == shouldAskClarificationBeforeMutation(
                      t.question, t.extractedRange, executable)
       IN  IF defer = "throws" THEN [t EXCEPT !.pc = "catch"]
           ELSE IF defer = "true" THEN Clarify(t, resp)
           ELSE Dispatch(r,
                  [t EXCEPT !.history =
                              Append(@, IF Len(resp.tool_calls) > 0
                                          THEN AssistantToolCallsMsg(resp.content,
                                                                     resp.tool_calls)
                                          ELSE AssistantFunctionCallMsg(
                                                 resp.content, resp.function_call)),
                            !.executableToolCalls = executable,
                            !.usesToolCalls = Len(resp.tool_calls) > 0,
                            !.toolIdx = 1])

(* Finish with the streams completed before the catch block runs. *)
FinishFinallyBeforeCatch(t) ==
  IF t.pc = "exit" THEN Finally(t)
  ELSE IF t.pc = "catch" THEN CatchBlock(Finally(t))
  ELSE t

(* Finish with a catch block that is not followed by the finally block. *)
FinishWithoutFinallyAfterCatch(t) ==
  IF t.pc = "exit" THEN Finally(t)
  ELSE IF t.pc = "catch" THEN CatchBlock(t)
  ELSE t

(* The end of the background task for a continuation that left the loop or *)
(* threw: the store write that follows the loop, the catch block, and the  *)
(* finally block.                                                          *)
Finish(t) ==
  IF t.pc = "exit" THEN Finally(t)
  ELSE IF t.pc = "catch" THEN Finally(CatchBlock(t))
  ELSE t

(* StoreAfter that also writes when the try block was left by an exception. *)
StoreAfterAlsoOnException(store, t) ==
  IF t.pc \in {"exit", "catch"}
    THEN StoreSet(store, t.threadId, SliceLast(t.history, HISTORY_LIMIT))
    ELSE store

(* StoreAfter writing the working history behind the stored one. *)
StoreAfterAppending(store, t) ==
  IF t.pc = "exit"
    THEN StoreSet(store, t.threadId,
                  SliceLast(StoreGet(store, t.threadId) \o t.history, HISTORY_LIMIT))
    ELSE store

(* conversationStore.set(normalizedThreadId, history.slice(-30)): reached  *)
(* when the loop was left by break or by its condition, not when the try   *)
(* block was left by an exception.                                         *)
StoreAfter(store, t) ==
  IF t.pc = "exit"
    THEN StoreSet(store, t.threadId, SliceLast(t.history, HISTORY_LIMIT))
    ELSE store

----------------------------------------------------------------------------
(* The environment: the caller's inputs, the model's responses, the        *)
(* provider's outcomes.                                                    *)

QDelete == <<"delete", "event">>

QVague == <<"anpai", "fuxi", "zuijin">>

QNoAction == <<"xianbuyao-anpai">>

QIntent == <<"Schedule", "review">>

Questions == {QDelete, QVague, QNoAction, QIntent}

SharedQuestions == {QDelete}

ThreadInputs == {"t1", ""}

FullArgs == ArgsObject("E123", "v", "v", "title")

IdOnlyArgs == ArgsObject("E123", Absent, Absent, Absent)

EmptyObjectArgs == ArgsObject(Absent, Absent, Absent, Absent)

EmptyTitleArgs == ArgsObject("E123", "v", "v", "")

NoMessage == Response(FALSE, "", <<>>, NoCall)

TextAnswer == Response(TRUE, "answer", <<>>, NoCall)

EmptyAnswer == Response(TRUE, "", <<>>, NoCall)

(* A read followed by a fully specified delete. *)
ReadThenDelete ==
  Response(TRUE, "", <<ToolCall("call_a", "get_calendar", FullArgs),
                       ToolCall("call_b", "delete_event", IdOnlyArgs)>>, NoCall)

UnknownTool ==
  Response(TRUE, "", <<ToolCall(NoId, "send_email", EmptyObjectArgs)>>, NoCall)

LegacyDelete ==
  Response(TRUE, "", <<>>, ToolCall(NoId, "delete_event", IdOnlyArgs))

VagueSchedule ==
  Response(TRUE, "", <<ToolCall("call_a", "schedule_event", EmptyObjectArgs)>>, NoCall)

NullArgsEdit ==
  Response(TRUE, "", <<ToolCall("call_a", "edit_event", ArgsNull)>>, NoCall)

ReadThenVagueEdit ==
  Response(TRUE, "text", <<ToolCall("call_a", "get_calendar", ArgsUndefined),
                           ToolCall("call_b", "edit_event", EmptyTitleArgs)>>, NoCall)

PlainResponses == {NoMessage, TextAnswer, ReadThenDelete}

WideResponses ==
  PlainResponses \cup {EmptyAnswer, UnknownTool, LegacyDelete, VagueSchedule,
                       NullArgsEdit, ReadThenVagueEdit}

RequestsTools(resp) ==
  resp.present /\ (Len(resp.tool_calls) > 0 \/ resp.function_call # NoCall)

ExtractReplies ==
  {ExtractReply("timeout", DateStr("missing", 0, 0), DateStr("missing", 0, 0)),
   ExtractReply("transport", DateStr("missing", 0, 0), DateStr("missing", 0, 0)),
   ExtractReply("no_choices_field", DateStr("missing", 0, 0), DateStr("missing", 0, 0)),
   ExtractReply("no_choice", DateStr("missing", 0, 0), DateStr("missing", 0, 0)),
   ExtractReply("json_null", DateStr("missing", 0, 0), DateStr("missing", 0, 0)),
   ExtractReply("json", DateStr("date", 1, 0), DateStr("missing", 0, 0)),
   ExtractReply("no_content", DateStr("missing", 0, 0), DateStr("missing", 0, 0)),
   ExtractReply("malformed", DateStr("missing", 0, 0), DateStr("missing", 0, 0)),
   ExtractReply("json", DateStr("null", 0, 0), DateStr("null", 0, 0)),
   ExtractReply("json", DateStr("date", 1, 0), DateStr("invalid", 0, 0)),
   ExtractReply("json", DateStr("date", 2, 0), DateStr("date", 2, 8)),
   ExtractReply("json", DateStr("date", 3, 0), DateStr("date", 1, 0)),
   ExtractReply("json", DateStr("date", 1, 8), DateStr("date", 3, 0))}

(* The history of a thread after a request that ran all its rounds on     *)
(* ReadThenDelete and a request that was answered at once.                 *)
RECURSIVE Rounds(_)
Rounds(n) ==
  IF n = 0 THEN <<>>
  ELSE Rounds(n - 1) \o <<AssistantToolCallsMsg("", ReadThenDelete.tool_calls),
                           ToolMsg("call_a", "data"), ToolMsg("call_b", "data")>>

LongThread ==
  <<UserMsg(QDelete)>> \o Rounds(MAX_TOOL_ROUNDS)
    \o <<UserMsg(QDelete), AssistantMsg("answer")>>

SeedHistories == {<<>>, LongThread}

(* The replies of the extractor's model in the runs with several requests: *)
(* a timeout and a range.                                                  *)
SharedReplies ==
  {ExtractReply("timeout", DateStr("missing", 0, 0), DateStr("missing", 0, 0)),
   ExtractReply("json", DateStr("date", 1, 8), DateStr("date", 3, 0))}

(* The responses of a model that asks for tools in every round: calls the  *)
(* gate lets through, a call it defers, and a call it cannot parse.        *)
ToolResponses == {ReadThenDelete, VagueSchedule, NullArgsEdit}

(* The bounded runs: one request, any reply to the extractor and a model   *)
(* that keeps asking for tools; one request and a model that answers       *)
(* anything, for a few rounds; several requests that may overlap; and one  *)
(* request with a vague scheduling question and a model that asks for      *)
(* tools in every round, with calls the gate may stop in any round.        *)
Profiles ==
  {[requests |-> 1, toolRounds |-> MAX_TOOL_ROUNDS + 1, wide |-> FALSE,
    questions |-> Questions, replies |-> ExtractReplies,
    responses |-> PlainResponses],
   [requests |-> 1, toolRounds |-> MaxWideRounds, wide |-> TRUE,
    questions |-> Questions, replies |-> SharedReplies,
    responses |-> WideResponses],
   [requests |-> MaxRequests, toolRounds |-> MaxSharedRounds, wide |-> FALSE,
    questions |-> SharedQuestions, replies |-> SharedReplies,
    responses |-> PlainResponses],
   [requests |-> 1, toolRounds |-> MAX_TOOL_ROUNDS + 1, wide |-> FALSE,
    questions |-> {QVague}, replies |-> SharedReplies,
    responses |-> ToolResponses]}

IdleGate == [question |-> <<>>, extractedRange |-> NullRange, calls |-> <<>>,
             result |-> "idle"]

-----------------------------------------------------------------------------
(* Client event store (hooks/use-events.tsx) *)

(* Date strings of the client, '' included, and their order. *)
Days == {"d1", "d2", "d3"}

DayOrd(d) == IF d = "d1" THEN 1 ELSE IF d = "d2" THEN 2 ELSE IF d = "d3" THEN 3 ELSE 0

Range(start, end) == [start |-> start, end |-> end]

(* An event as the provider serves it: its id and its revision. *)
Event(id, rev) == [id |-> id, rev |-> rev]

EventIds == <<"a", "b">>

(* The provider's events at the start: a on d1, b on d2. *)
ProviderAtStart ==
  [id \in {"a", "b"} |-> [day |-> IF id = "a" THEN "d1" ELSE "d2", rev |-> 0,
                          deleted |-> FALSE]]

(* data.events of an ok response for a range: the provider's events whose  *)
(* day lies in the range, in the provider's order.                         *)
Served(held, range) ==
  LET in(id) == /\ ~held[id].deleted
                /\ DayOrd(range.start) <= DayOrd(held[id].day)
                /\ DayOrd(held[id].day) <= DayOrd(range.end)
      one(id) == IF in(id) THEN <<Event(id, held[id].rev)>> ELSE <<>>
  IN  one(EventIds[1]) \o one(EventIds[2])

(* findIndex that never finds. *)
findIndexNever(updatedEvents, id) == 0 - 1

(* updatedEvents.findIndex((e) => e.id === id): the first index, or -1. *)
findIndex(updatedEvents, id) ==
  IF \E i \in 1..Len(updatedEvents) : updatedEvents[i].id = id
    THEN CHOOSE i \in 1..Len(updatedEvents) :
           /\ updatedEvents[i].id = id
           /\ \A j \in 1..(i - 1) : updatedEvents[j].id # id
    ELSE 0 - 1

(* newEvents.forEach: replace the stored event of the same id in place, or *)
(* push.                                                                   *)
RECURSIVE Merge(_, _)
Merge(updatedEvents, newEvents) ==
  IF newEvents = <<>> THEN updatedEvents
  ELSE LET newEvent == Head(newEvents)
           index == findIndex(updatedEvents, newEvent.id)
       IN  Merge(IF index # 0 - 1 THEN [updatedEvents EXCEPT ![index] = newEvent]
                                  ELSE Append(updatedEvents, newEvent),
                 Tail(newEvents))

(* The second set(): push { start, end } unless a range with the same      *)
(* start and end is there.                                                 *)
AddRange(ranges, start, end) ==
  IF \E i \in 1..Len(ranges) : ranges[i].start = start /\ ranges[i].end = end
    THEN ranges
    ELSE Append(ranges, Range(start, end))

(* start && end *)
IsExplicit(start, end) == start # "" /\ end # ""

(* rangesToFetch *)
RangesToFetch(start, end, cached, curStart, curEnd) ==
  IF IsExplicit(start, end) THEN <<Range(start, end)>>
  ELSE IF Len(cached) > 0 THEN cached
  ELSE <<Range(curStart, curEnd)>>

(* A failed call that keeps what it fetched before the failure. *)
EventsAfterFailureMerged(stored, newEvents) == Merge(stored, newEvents)

(* The events after a call that left by return (response not ok) or by the *)
(* catch block: no set() was reached.                                      *)
EventsAfterFailure(stored, newEvents) == stored

RefetchCalls == 1..MaxRefetchCalls

IdleRefetch ==
  [pc |-> "idle", start |-> "", end |-> "", rangesToFetch |-> <<>>, idx |-> 0,
   newEvents |-> <<>>, body |-> <<>>, outcome |-> "", toast |-> ""]

(* The store as create() builds it; no call of refetchEvents yet. *)
ClientCreated ==
  /\ events = <<>>
  /\ cachedRanges = <<>>
  /\ currentStart = ""
  /\ currentEnd = ""
  /\ refetch = [c \in RefetchCalls |-> IdleRefetch]
  /\ provider = [held |-> ProviderAtStart, changes |-> 0]

----------------------------------------------------------------------------
(* Actions *)

Init ==
  /\ env \in Profiles
  /\ \E seed \in SeedHistories :
       /\ conversationStore = IF seed = <<>> THEN [k \in {} |-> <<>>]
                                             ELSE [k \in {"t1"} |-> seed]
       /\ assistantConfigPromise = IF seed = <<>> THEN "null" ELSE "fulfilled"
  /\ configLoads = 0
  /\ task = [r \in Reqs |-> IdleTask]
  /\ gate = IdleGate
  /\ ClientCreated

(* NotAuthenticated that has created the status stream before the check. *)
NotAuthenticatedAfterStreams(t) ==
  [t EXCEPT !.pc = "unauthenticated", !.returned = "Not authenticated",
            !.status = <<"conversation.init">>]

(* if (!session || !session.accessToken) return { status: '',              *)
(* text: 'Not authenticated', gui: null }                                   *)
NotAuthenticated(t) ==
  [t EXCEPT !.pc = "unauthenticated", !.returned = "Not authenticated"]

(* submitMessage waiting for the end of the background task to return. *)
ReturnStreamsAtEnd(t) ==
  [t EXCEPT !.returned = IF t.pc = "done" THEN "streams" ELSE ""]

(* The background task is not awaited: when it reaches its first await,    *)
(* submitMessage returns the handles of the streams.                       *)
ReturnStreams(t) == [t EXCEPT !.returned = "streams"]

(* The cache keeping the rejected promise. *)
AfterRejectionKept(promise) == "rejected"

(* catch (error) { assistantConfigPromise = null; throw error } *)
AfterRejection(promise) == "null"

(* loadAssistantConfig reading the files again after a completed load. *)
loadAssistantConfigReloading(promise, loads) ==
  IF promise = "pending" THEN [promise |-> promise, loads |-> loads]
  ELSE [promise |-> "pending", loads |-> loads + 1]

(* loadAssistantConfig starting a load whenever none has completed. *)
loadAssistantConfigUncached(promise, loads) ==
  [promise |-> "pending", loads |-> loads + 1]

(* loadAssistantConfig up to its await: the cached promise when there is   *)
(* one, else a new load whose promise is cached.                           *)
loadAssistantConfig(promise, loads) ==
  IF promise # "null" THEN [promise |-> promise, loads |-> loads]
  ELSE [promise |-> "pending", loads |-> loads + 1]

(* What getServerSession gives: a session with an access token, a session *)
(* without one, no session, or a rejection.                                *)
Sessions == {"token", "no token", "null", "rejects"}

(* The outer catch of submitMessage: { status: 'Failed to submit message', *)
(* text: error.message, gui: null }; no stream was created.                *)
FailedToSubmit(t) ==
  [t EXCEPT !.pc = "failed", !.returned = "Failed to submit message"]

(* submitMessage up to its return: the session check, the streams, and the *)
(* background task up to its first await.                                  *)
SubmitMessage(r, question, threadId, session) ==
  /\ task[r].pc = "idle"
  /\ r <= env.requests
  /\ question \in env.questions
  /\ \A o \in Reqs : o < r => task[o].pc # "idle"
  /\ task' = [task EXCEPT ![r] =
       IF session = "rejects"
         THEN FailedToSubmit(@)
       ELSE IF session # "token"
         THEN NotAuthenticated(@)
         ELSE LET normalizedThreadId ==
                    IF threadId = "" THEN generateId(r, 1) ELSE threadId
              IN ReturnStreams(StatusUpdate(
                   [@ EXCEPT !.pc = "extract", !.question = question,
                             !.threadId = normalizedThreadId,
                             !.threadIdStream = normalizedThreadId,
                             !.ids = IF threadId = "" THEN 1 ELSE 0,
                             !.status = <<"conversation.init">>,
                             !.refetchJobsStream = <<0>>],
                   "conversation.extract_range"))]
  /\ UNCHANGED <<conversationStore, assistantConfigPromise, configLoads, env, gate, clientVars>>

(* The extractor returns; loadAssistantConfig is called and awaited.  The  *)
(* request that starts a load waits inside loadAssistantConfig for the     *)
(* promise it created (pc "load"); a request that is handed the cached     *)
(* promise, pending or fulfilled, waits for it at the call (pc "config").   *)
(* The continuation of line 675 comes with the network callback of the     *)
(* extractor's completion request.  A rejected promise is in the cache     *)
(* only within the callback of the failed file read: the catch of line 170 *)
(* is the first reaction of the rejection and runs in the microtask drain  *)
(* of that callback, before any other callback, so no request reaches line *)
(* 137 while the cache holds a rejected promise.                           *)
ExtractionReturns(r, reply) ==
  /\ task[r].pc = "extract"
  /\ assistantConfigPromise # "rejected"
  /\ reply \in env.replies
  /\ LET extracted == extractTimeRangeFromQuestion(reply)
         range == extracted.range
         t == RefetchRangeUpdate([task[r] EXCEPT !.extractedRange = range,
                                                 !.extractReply = reply], range)
     IN  IF extracted.threw
           THEN /\ task' = [task EXCEPT ![r] =
                              Finish([@ EXCEPT !.pc = "catch", !.extractReply = reply])]
                /\ UNCHANGED <<assistantConfigPromise, configLoads>>
         ELSE LET config == loadAssistantConfig(assistantConfigPromise, configLoads)
              IN  /\ task' = [task EXCEPT ![r] =
                                [t EXCEPT !.pc = IF config.loads > configLoads
                                                   THEN "load" ELSE "config",
                                          !.awaited = config.promise]]
                  /\ assistantConfigPromise' = config.promise
                  /\ configLoads' = config.loads
  /\ UNCHANGED <<conversationStore, env, gate, clientVars>>

(* The file reads of the in-flight load complete: the promise is           *)
(* fulfilled.  The requests awaiting it go on in later turns.              *)
ConfigLoadSucceeds ==
  /\ assistantConfigPromise = "pending"
  /\ assistantConfigPromise' = "fulfilled"
  /\ task' = [r \in Reqs |-> IF task[r].awaited = "pending"
                               THEN [task[r] EXCEPT !.awaited = "fulfilled"]
                               ELSE task[r]]
  /\ UNCHANGED <<conversationStore, configLoads, env, gate, clientVars>>

(* A file read of the in-flight load fails: the promise is rejected.  The  *)
(* request that started the load resumes next, in the same microtask       *)
(* drain (LoadReturns), and clears the cache; until then no request calls  *)
(* the loader.                                                             *)
ConfigLoadFails ==
  /\ assistantConfigPromise = "pending"
  /\ assistantConfigPromise' = "rejected"
  /\ task' = [r \in Reqs |-> IF task[r].awaited = "pending"
                               THEN [task[r] EXCEPT !.awaited = "rejected"]
                               ELSE task[r]]
  /\ UNCHANGED <<conversationStore, configLoads, env, gate, clientVars>>

(* try { return await assistantConfigPromise } catch (error) { ... }: the  *)
(* request that started the load resumes inside loadAssistantConfig; after *)
(* a rejection it clears the cache and throws on.  Its submitMessage goes  *)
(* on in a later turn.                                                     *)
LoadReturns(r) ==
  /\ task[r].pc = "load"
  /\ task[r].awaited \in {"fulfilled", "rejected"}
  /\ task' = [task EXCEPT ![r].pc = "config"]
  /\ assistantConfigPromise' = IF task[r].awaited = "rejected"
                                 THEN AfterRejection(assistantConfigPromise)
                                 ELSE assistantConfigPromise
  /\ UNCHANGED <<conversationStore, configLoads, env, gate, clientVars>>

(* "await loadAssistantConfig()" returns or throws: the request reads the  *)
(* thread's history and enters its first round, or ends in its catch       *)
(* block.  The reaction of the request that started the load was           *)
(* registered on the promise first, so that request has resumed inside     *)
(* loadAssistantConfig before any request goes on here.                    *)
ConfigReturns(r) ==
  /\ task[r].pc = "config"
  /\ task[r].awaited \in {"fulfilled", "rejected"}
  /\ \A o \in Reqs : task[o].pc = "load" => task[o].awaited = "pending"
  /\ task' = [task EXCEPT ![r] =
                IF @.awaited = "fulfilled"
                  THEN BeginLoop([@ EXCEPT !.awaited = ""], conversationStore)
                  ELSE Finish([@ EXCEPT !.pc = "catch", !.awaited = ""])]
  /\ UNCHANGED <<conversationStore, assistantConfigPromise, configLoads, env, gate,
                 clientVars>>

(* The completion request of a round returns. *)
ModelReturns(r, resp) ==
  /\ task[r].pc = "model"
  /\ resp \in env.responses
  /\ RequestsTools(resp) => env.toolRounds > 0
  /\ env' = IF RequestsTools(resp) THEN [env EXCEPT !.toolRounds = @ - 1] ELSE env
  /\ LET t == ProcessResponse(r, [task[r] EXCEPT !.responses = Append(@, resp)], resp)
     IN  /\ task' = [task EXCEPT ![r] = Finish(t)]
         /\ conversationStore' = StoreAfter(conversationStore, t)
  /\ UNCHANGED <<assistantConfigPromise, configLoads, gate, clientVars>>

(* The completion request of a round fails (timeout, transport). *)
ModelThrows(r) ==
  /\ task[r].pc = "model"
  /\ task' = [task EXCEPT ![r] = Finish([@ EXCEPT !.pc = "catch"])]
  /\ UNCHANGED <<conversationStore, assistantConfigPromise, configLoads, env, gate, clientVars>>

(* calendars.get returns or fails (then the time zone is 'UTC'):          *)
(* executeCalendarTool issues the provider call of the tool.               *)
TimeZoneReturns(r) ==
  /\ task[r].pc = "timezone"
  /\ task' = [task EXCEPT ![r].pc = "tool"]
  /\ UNCHANGED <<conversationStore, assistantConfigPromise, configLoads, env, gate,
                 clientVars>>

(* The provider call of the current tool call returns or fails:            *)
(* executeCalendarTool updates its progress event and returns.             *)
ToolReturns(r, providerOk) ==
  /\ task[r].pc = "tool"
  /\ providerOk \/ env.wide
  /\ LET call == task[r].executableToolCalls[task[r].toolIdx]
     IN  task' = [task EXCEPT ![r] =
                    ReturnResult(@, executeCalendarTool(call, providerOk))]
  /\ UNCHANGED <<conversationStore, assistantConfigPromise, configLoads, env, gate,
                 clientVars>>

(* "await executeCalendarTool(...)" returns: the loop records the result   *)
(* and goes on to the next call, the next round or the end of the task.    *)
ResultReturns(r) ==
  /\ task[r].pc = "result"
  /\ LET call == task[r].executableToolCalls[task[r].toolIdx]
         t == Dispatch(r, RecordResult(r, task[r], call, task[r].result))
     IN  /\ task' = [task EXCEPT ![r] = Finish(t)]
         /\ conversationStore' = StoreAfter(conversationStore, t)
  /\ UNCHANGED <<assistantConfigPromise, configLoads, env, gate, clientVars>>

Next ==
  \/ \E r \in Reqs, q \in Questions, id \in ThreadInputs, session \in Sessions :
       SubmitMessage(r, q, id, session)
  \/ \E r \in Reqs, reply \in ExtractReplies : ExtractionReturns(r, reply)
  \/ ConfigLoadSucceeds
  \/ ConfigLoadFails
  \/ \E r \in Reqs : LoadReturns(r)
  \/ \E r \in Reqs : ConfigReturns(r)
  \/ \E r \in Reqs, resp \in WideResponses : ModelReturns(r, resp)
  \/ \E r \in Reqs : ModelThrows(r)
  \/ \E r \in Reqs : TimeZoneReturns(r)
  \/ \E r \in Reqs, ok \in BOOLEAN : ToolReturns(r, ok)
  \/ \E r \in Reqs : ResultReturns(r)

Spec == Init /\ [][Next]_vars

(* An awaited operation settles (the extractor's completion request, the   *)
(* file reads of the configuration load, the completion request of a round *)
(* or the provider call of a tool returns or fails), or a continuation     *)
(* that waits in the microtask queue runs.                                 *)
Settle ==
  \/ \E r \in Reqs : ModelThrows(r)
  \/ ConfigLoadSucceeds
  \/ ConfigLoadFails
  \/ \E r \in Reqs : LoadReturns(r)
  \/ \E r \in Reqs : ConfigReturns(r)
  \/ \E r \in Reqs : ResultReturns(r)
  \/ \E r \in Reqs : TimeZoneReturns(r)
  \/ \E r \in Reqs, reply \in ExtractReplies : ExtractionReturns(r, reply)
  \/ \E r \in Reqs, ok \in BOOLEAN : ToolReturns(r, ok)
  \/ \E r \in Reqs, resp \in WideResponses : ModelReturns(r, resp)

(* No operation stays pending for ever.  Nothing is assumed of the caller: *)
(* a request need not be submitted.                                        *)
Settles == WF_vars(Settle)

SpecLive == Spec /\ Settles

----------------------------------------------------------------------------
(* The gate on its own: one evaluation on inputs drawn from bounded sets.  *)

GateQuestions ==
  {QDelete, QIntent, QVague, QNoAction,
   <<"zuijin">>, <<"xianbuyao-caozuo">>, <<"buyao-zhixing", "dagai">>,
   <<"Don't", "book", "Soon">>, <<"Don't", "delete">>, <<"book", "Don't">>}

GateNames == KnownTools \cup {"send_email"}

GatePayloads == {ArgsUndefined, ArgsNull, FullArgs, IdOnlyArgs, EmptyTitleArgs}

GateCalls == {ToolCall("call_a", n, a) : n \in GateNames, a \in GatePayloads}

GateCallLists == UNION {[1..n -> GateCalls] : n \in 0..MaxGateCalls}

GateRanges == {NullRange, TimeRange(1, 3)}

InitGate ==
  /\ gate \in [question : GateQuestions, extractedRange : GateRanges,
               calls : GateCallLists, result : {"pending"}]
  /\ conversationStore = [k \in {} |-> <<>>]
  /\ assistantConfigPromise = "null"
  /\ configLoads = 0
  /\ task = [r \in Reqs |-> IdleTask]
  /\ env = [requests |-> 0, toolRounds |-> 0, wide |-> FALSE, questions |-> {},
            replies |-> {}, responses |-> {}]
  /\ ClientCreated

EvaluateGate ==
  /\ gate.result = "pending"
  /\ gate' = [gate EXCEPT !.result =
                shouldAskClarificationBeforeMutation(
                  gate.question, gate.extractedRange, gate.calls)]
  /\ UNCHANGED <<conversationStore, assistantConfigPromise, configLoads, task, env,
               clientVars>>

NextGate == EvaluateGate

SpecGate == InitGate /\ [][NextGate]_vars

-----------------------------------------------------------------------------
(* The client event store on its own *)

serverVars == <<conversationStore, assistantConfigPromise, configLoads, task, env, gate>>

RefetchInputs == {<<"", "">>, <<"d1", "">>, <<"d1", "d2">>}

(* "await fetch": a response that is ok, one that is not, or a rejection. *)
FetchOutcomes == {"ok", "not_ok", "throws"}

(* "await response.json()": a body with an events array; or one that      *)
(* throws: a body that is not JSON (the promise is rejected) or a body     *)
(* without an events array (the spread of line 69 throws).                 *)
BodyOutcomes == {"events", "throws"}

EventLists == {<<Event("b", 0), Event("a", 0)>>}

RangeLists == {<<Range("d1", "d2"), Range("d2", "d3")>>}

InitEvents ==
  /\ ClientCreated
  /\ conversationStore = [k \in {} |-> <<>>]
  /\ assistantConfigPromise = "null"
  /\ configLoads = 0
  /\ task = [r \in Reqs |-> IdleTask]
  /\ env = [requests |-> 0, toolRounds |-> 0, wide |-> FALSE, questions |-> {},
            replies |-> {}, responses |-> {}]
  /\ gate = IdleGate

(* refetchEvents(start, end) up to its first await: the state is read, the *)
(* ranges are chosen, the first fetch is issued.  The arguments are read   *)
(* again only as the pair of an explicit range (85-88), so they are kept   *)
(* only when both are given.                                               *)
RefetchEvents(c, start, end) ==
  /\ refetch[c].pc = "idle"
  /\ \A o \in RefetchCalls : o < c => refetch[o].pc # "idle"
  /\ refetch' = [refetch EXCEPT ![c] =
       [@ EXCEPT !.pc = "fetch",
                 !.start = IF IsExplicit(start, end) THEN start ELSE "",
                 !.end = IF IsExplicit(start, end) THEN end ELSE "",
                 !.rangesToFetch = RangesToFetch(start, end, cachedRanges,
                                                 currentStart, currentEnd),
                 !.idx = 1]]
  /\ UNCHANGED <<events, cachedRanges, currentStart, currentEnd, provider, serverVars>>

(* The call is over without a set(): of a call that is over only the       *)
(* outcome, the toast and the number of the range that failed are kept.    *)
RefetchFailed(call, toast) ==
  [IdleRefetch EXCEPT !.pc = "done", !.outcome = "failed", !.idx = call.idx,
                      !.toast = toast]

(* "await fetch" of the current range settles.  Rejected: the catch block  *)
(* toasts.  Otherwise the response is there, with the events the provider  *)
(* holds for the range at that moment as its body; the body is read next:  *)
(* response.json() of an ok response, response.text() of one that is not.  *)
FetchReturns(c, outcome) ==
  /\ refetch[c].pc = "fetch"
  /\ LET call == refetch[c]
         range == call.rangesToFetch[call.idx]
     IN  IF outcome = "throws"
           THEN /\ refetch' = [refetch EXCEPT ![c] =
                                 RefetchFailed(call, "Failed to fetch events")]
                /\ events' = EventsAfterFailure(events, call.newEvents)
         ELSE IF outcome = "not_ok"
           THEN /\ refetch' = [refetch EXCEPT ![c].pc = "text"]
                /\ UNCHANGED events
         ELSE /\ refetch' = [refetch EXCEPT ![c] =
                   [@ EXCEPT !.pc = "json", !.body = Served(provider.held, range)]]
              /\ UNCHANGED events
  /\ UNCHANGED <<cachedRanges, currentStart, currentEnd, provider, serverVars>>

(* "await response.text()" of a response that is not ok settles, either    *)
(* way to the same end: the body is logged, the toast names the status,    *)
(* and the call returns.                                                   *)
TextReturns(c) ==
  /\ refetch[c].pc = "text"
  /\ refetch' = [refetch EXCEPT ![c] =
                   RefetchFailed(@, "Failed to fetch events (status)")]
  /\ events' = EventsAfterFailure(events, refetch[c].newEvents)
  /\ UNCHANGED <<cachedRanges, currentStart, currentEnd, provider, serverVars>>

(* "await response.json()" settles.  A body that is not JSON or has no     *)
(* events array: the catch block toasts.  Otherwise the events of the body *)
(* are added to newEvents and the next range is fetched; after the last    *)
(* range the two set() calls run.                                          *)
JsonReturns(c, outcome) ==
  /\ refetch[c].pc = "json"
  /\ LET call == refetch[c]
         newEvents == call.newEvents \o call.body
     IN  IF outcome # "events"
           THEN /\ refetch' = [refetch EXCEPT ![c] =
                                 RefetchFailed(call, "Failed to fetch events")]
                /\ events' = EventsAfterFailure(events, call.newEvents)
                /\ UNCHANGED cachedRanges
         ELSE IF call.idx < Len(call.rangesToFetch)
           THEN /\ refetch' = [refetch EXCEPT ![c] =
                     [@ EXCEPT !.pc = "fetch", !.newEvents = newEvents,
                               !.body = <<>>, !.idx = @ + 1]]
                /\ UNCHANGED <<events, cachedRanges>>
         ELSE /\ refetch' = [refetch EXCEPT ![c] =
                   [IdleRefetch EXCEPT !.pc = "done", !.outcome = "merged"]]
              /\ events' = Merge(events, newEvents)
              /\ cachedRanges' = IF IsExplicit(call.start, call.end)
                                   THEN AddRange(cachedRanges, call.start, call.end)
                                   ELSE cachedRanges
  /\ UNCHANGED <<currentStart, currentEnd, provider, serverVars>>

(* An event is deleted on the provider. *)
ProviderDeletes(id) ==
  /\ provider.changes < MaxProviderChanges
  /\ ~provider.held[id].deleted
  /\ provider' = [held |-> [provider.held EXCEPT ![id].deleted = TRUE],
                  changes |-> provider.changes + 1]
  /\ UNCHANGED <<events, cachedRanges, currentStart, currentEnd, refetch, serverVars>>

(* An event is edited on the provider: a new revision. *)
ProviderEdits(id) ==
  /\ provider.changes < MaxProviderChanges
  /\ ~provider.held[id].deleted
  /\ provider' = [held |-> [provider.held EXCEPT ![id].rev = @ + 1],
                  changes |-> provider.changes + 1]
  /\ UNCHANGED <<events, cachedRanges, currentStart, currentEnd, refetch, serverVars>>

setCurrentStart(start) ==
  /\ currentStart' = start
  /\ UNCHANGED <<events, cachedRanges, currentEnd, refetch, provider, serverVars>>

setCurrentEnd(end) ==
  /\ currentEnd' = end
  /\ UNCHANGED <<events, cachedRanges, currentStart, refetch, provider, serverVars>>

setEvents(list) ==
  /\ events' = list
  /\ UNCHANGED <<cachedRanges, currentStart, currentEnd, refetch, provider, serverVars>>

setCachedRanges(list) ==
  /\ cachedRanges' = list
  /\ UNCHANGED <<events, currentStart, currentEnd, refetch, provider, serverVars>>

NextEvents ==
  \/ \E c \in RefetchCalls, in \in RefetchInputs : RefetchEvents(c, in[1], in[2])
  \/ \E c \in RefetchCalls, outcome \in FetchOutcomes : FetchReturns(c, outcome)
  \/ \E c \in RefetchCalls : TextReturns(c)
  \/ \E c \in RefetchCalls, outcome \in BodyOutcomes : JsonReturns(c, outcome)
  \/ ProviderDeletes("b")
  \/ ProviderEdits("a")
  \/ setCurrentStart("d1")
  \/ setCurrentEnd("d3")
  \/ \E list \in EventLists : setEvents(list)
  \/ \E list \in RangeLists : setCachedRanges(list)

SpecEvents == InitEvents /\ [][NextEvents]_vars

----------------------------------------------------------------------------
(* Properties *)

Started(r) == task[r].pc \notin {"idle", "unauthenticated", "failed"}

StoredHistories == {conversationStore[k] : k \in DOMAIN conversationStore}

WorkingHistories == {task[r].history : r \in Reqs}

(* A result message answers a request: the ids are equal, or the request   *)
(* carries no id and the result carries a synthesized one.                 *)
GeneratedIds == {generateId(r, n) : r \in Reqs, n \in 1..(4 * MAX_TOOL_ROUNDS)}

Answers(msg, call) ==
  \/ call.id # NoId /\ msg.tool_call_id = call.id
  \/ call.id = NoId /\ msg.tool_call_id \in GeneratedIds

(* Message i of h, a result message, has its request before it. *)
HasRequest(h, i) ==
  IF h[i].role = "tool"
    THEN \E j \in 1..(i - 1) :
           /\ h[j].role = "assistant"
           /\ \E k \in 1..Len(h[j].tool_calls) : Answers(h[i], h[j].tool_calls[k])
  ELSE IF h[i].role = "function"
    THEN /\ i > 1
         /\ h[i - 1].role = "assistant"
         /\ h[i - 1].function_call # NoCall
         /\ h[i - 1].function_call.name = h[i].name
  ELSE TRUE

(* The assistant message j of h is followed by exactly its results. *)
IsAnswered(h, j) ==
  LET n == Len(h[j].tool_calls) IN
  IF n > 0
    THEN /\ j + n <= Len(h)
         /\ \A k \in 1..n : h[j + k].role = "tool"
                            /\ Answers(h[j + k], h[j].tool_calls[k])
         /\ j + n < Len(h) => h[j + n + 1].role # "tool"
  ELSE IF h[j].function_call # NoCall
    THEN /\ j + 1 <= Len(h)
         /\ h[j + 1].role = "function"
         /\ h[j + 1].name = h[j].function_call.name
  ELSE TRUE

(* The result message i of h belongs to the assistant message just before  *)
(* the run of result messages it stands in.                                *)
BelongsToPreceding(h, i) ==
  IF h[i].role = "tool"
    THEN \E j \in 1..(i - 1) :
           /\ h[j].role = "assistant"
           /\ i - j <= Len(h[j].tool_calls)
           /\ \A m \in (j + 1)..i : h[m].role = "tool"
           /\ Answers(h[i], h[j].tool_calls[i - j])
  ELSE IF h[i].role = "function"
    THEN HasRequest(h, i)
  ELSE TRUE

NoUnanswered(h) ==
  \A j \in 1..Len(h) : h[j].role = "assistant" => IsAnswered(h, j)

WellFormed(h) ==
  /\ NoUnanswered(h)
  /\ \A i \in 1..Len(h) : BelongsToPreceding(h, i)

(* C1: in every reachable state the history stored for any thread id has  *)
(* at most 30 messages, whatever requests ran (answered, deferred, out of  *)
(* rounds, failed, one after the other or overlapping).                    *)
C1_StoredHistoryBounded ==
  \A k \in DOMAIN conversationStore : Len(conversationStore[k]) <= HISTORY_LIMIT

(* A request has finished whose working history was longer than 30, and    *)
(* its thread holds exactly 30 messages.                                   *)
C1_Witness ==
  \E r \in Reqs :
    /\ task[r].pc = "done"
    /\ task[r].outcome \in {"final", "exhausted", "clarification", "empty"}
    /\ Len(task[r].history) > HISTORY_LIMIT
    /\ task[r].threadId \in DOMAIN conversationStore
    /\ Len(conversationStore[task[r].threadId]) = HISTORY_LIMIT

(* C2: a request issues at most 8 assistant model calls; once round 8 is   *)
(* over the task is done, whatever the model answered in it.               *)
C2_RoundBudget ==
  \A r \in Reqs :
    /\ task[r].modelCalls <= MAX_TOOL_ROUNDS
    /\ task[r].pc \in {"model", "timezone", "tool", "result"} =>
         /\ task[r].round < MAX_TOOL_ROUNDS
         /\ task[r].modelCalls = task[r].round + 1
    /\ task[r].round >= MAX_TOOL_ROUNDS => task[r].pc = "done"

(* The model asked for tools in all 8 rounds, the tools of round 8 ran,    *)
(* and the task stopped.                                                   *)
C2_Witness ==
  \E r \in Reqs :
    /\ task[r].pc = "done"
    /\ task[r].outcome = "exhausted"
    /\ task[r].modelCalls = MAX_TOOL_ROUNDS
    /\ Len(task[r].executed) = 2 * MAX_TOOL_ROUNDS

(* C3: for a request that started its background task, a task that has     *)
(* taken an exit path (final answer, empty response, clarification, budget *)
(* exhausted, exception) has completed each of its streams exactly once,   *)
(* and a task still awaiting a call has completed none.                    *)
C3_StreamsCompletedOnce ==
  \A r \in Reqs :
    /\ task[r].pc \in {"idle", "unauthenticated", "failed", "extract", "load",
                       "config", "model", "timezone", "tool", "result", "done"}
    /\ task[r].outcome # "" => task[r].pc = "done"
    /\ task[r].pc = "done" =>
         /\ task[r].outcome \in {"final", "empty", "clarification",
                                 "exhausted", "error"}
         /\ \A s \in StreamNames : task[r].done[s] = 1
    /\ task[r].pc # "done" => \A s \in StreamNames : task[r].done[s] = 0

(* A model call threw after tools of an earlier round had run, and the     *)
(* streams are completed.                                                  *)
C3_Witness ==
  \E r \in Reqs :
    /\ task[r].pc = "done"
    /\ task[r].outcome = "error"
    /\ Len(task[r].executed) > 0
    /\ \A s \in StreamNames : task[r].done[s] = 1

(* C4: in every history, working or stored, every tool-result message is   *)
(* preceded by an assistant message with a tool-call request of the same   *)
(* id (for the legacy form: by the assistant message with that function    *)
(* call).                                                                  *)
C4_EveryResultHasRequest ==
  \A h \in WorkingHistories \cup StoredHistories :
    \A i \in 1..Len(h) : HasRequest(h, i)

(* C5: whenever a model call is issued, in the history sent every          *)
(* assistant message with tool-call requests is followed at once by        *)
(* exactly one result per request, in request order, and every result      *)
(* message belongs to the assistant message just before its run.           *)
C5_SentHistoryWellFormed ==
  \A r \in Reqs : task[r].pc = "model" => WellFormed(task[r].history)

(* An evaluation of the gate that has returned or thrown. *)
Evaluated == gate.result \in {"true", "false", "throws"}

(* The arguments a mutating call needs are all there: schedule_event:      *)
(* start, end, title; edit_event: id, start, end, title; delete_event: id. *)
Given(v) == v \notin {Absent, ""}

CompleteArgs(call) ==
  LET a == call.arguments IN
  /\ a.kind = "object"
  /\ call.name \in {"schedule_event", "edit_event"} =>
       Given(a.start_time) /\ Given(a.end_time) /\ Given(a.summary)
  /\ call.name \in {"edit_event", "delete_event"} => Given(a.event_id)

AllMutatingComplete(calls) ==
  \A i \in 1..Len(calls) : calls[i].name \in MutationTools => CompleteArgs(calls[i])

(* C6 as stated: the gate returns true for a question that matches a       *)
(* no-action phrase, for every extracted range and every list of requested *)
(* tool calls.                                                             *)
C6_NoActionAlwaysDefers ==
  Evaluated /\ MatchesNoAction(gate.question) => gate.result = "true"

(* C6: for a question that matches a no-action phrase and a list with at   *)
(* least one mutating call, the gate returns true, whatever the arguments  *)
(* (complete, missing, not JSON, null) and the extracted range.            *)
C6_NoActionDefersMutation ==
  Evaluated /\ MatchesNoAction(gate.question) /\ hasMutationTool(gate.calls)
    => gate.result = "true"

(* A no-action question, a range, a complete delete_event and an          *)
(* edit_event whose arguments are the JSON text null: deferred.            *)
C6_Witness ==
  /\ gate.result = "true"
  /\ gate.question = <<"Don't", "book", "Soon">>
  /\ ~gate.extractedRange.isNull
  /\ Len(gate.calls) = 2
  /\ gate.calls[1] = ToolCall("call_a", "delete_event", IdOnlyArgs)
  /\ gate.calls[2] = ToolCall("call_a", "edit_event", ArgsNull)

(* C7 as stated: when every mutating call has complete arguments the gate  *)
(* returns false, however the question is phrased.                         *)
C7_CompleteNeverDefers ==
  Evaluated /\ AllMutatingComplete(gate.calls) => gate.result = "false"

(* C7: when every mutating call has complete arguments and the question    *)
(* matches no no-action phrase, the gate returns false, whatever else the  *)
(* question says and whether or not a range was extracted.                 *)
C7_CompletePassesUnlessNoAction ==
  Evaluated /\ AllMutatingComplete(gate.calls) /\ ~MatchesNoAction(gate.question)
    => gate.result = "false"

(* A vague scheduling question without a range, a complete delete_event    *)
(* and a complete edit_event: let through.                                 *)
C7_Witness ==
  /\ gate.result = "false"
  /\ gate.question = QVague
  /\ gate.extractedRange.isNull
  /\ Len(gate.calls) = 2
  /\ gate.calls[1] = ToolCall("call_a", "delete_event", IdOnlyArgs)
  /\ gate.calls[2] = ToolCall("call_a", "edit_event", FullArgs)

(* The calls of a request that succeeded in changing the calendar. *)
SuccessfulMutations(r) ==
  {i \in 1..Len(task[r].executed) :
     /\ task[r].executed[i].name \in MutationTools
     /\ task[r].executed[i].output = "data"}

(* C8: the mutation-count stream of a request holds 0, 1, .., n, where n   *)
(* is the number of executed tool calls that succeeded in mutating; the    *)
(* counter equals n, the dispatcher reported didMutate for exactly those   *)
(* calls, and no call with an error result was counted.                    *)
C8_MutationCounter ==
  \A r \in Reqs :
    Started(r) =>
      LET n == Cardinality(SuccessfulMutations(r)) IN
      /\ task[r].refetchJobs = n
      /\ task[r].refetchJobsStream = [i \in 1..(n + 1) |-> i - 1]
      /\ \A i \in 1..Len(task[r].executed) :
           task[r].executed[i].didMutate <=> i \in SuccessfulMutations(r)

(* A finished request with one counted mutation, one failed mutating call  *)
(* and a read.                                                             *)
C8_Witness ==
  \E r \in Reqs :
    /\ task[r].pc = "done"
    /\ task[r].refetchJobs = 1
    /\ task[r].refetchJobsStream = <<0, 1>>
    /\ \E i \in 1..Len(task[r].executed) :
         /\ task[r].executed[i].name \in MutationTools
         /\ task[r].executed[i].output = "error: detail"
    /\ \E i \in 1..Len(task[r].executed) : task[r].executed[i].name = "get_calendar"

(* What a request that ended in the clarification state stored. *)
StoredBy(r) == SliceLast(task[r].history, HISTORY_LIMIT)

(* C9 as stated: a request that ends in the clarification state has        *)
(* dispatched no tool call, and what it stored holds no tool-call request  *)
(* without its results.                                                    *)
C9_ClarificationDispatchedNothing ==
  \A r \in Reqs :
    task[r].outcome = "clarification" =>
      /\ Len(task[r].executed) = 0
      /\ NoUnanswered(StoredBy(r))

(* C9: in the step in which the gate defers, no tool call is dispatched    *)
(* (the calls of earlier rounds stay as they were), no further model call  *)
(* is issued, the task is done, and the history it stores ends with the    *)
(* clarification prompt and holds no tool-call request without its         *)
(* results.                                                                *)
C9_DeferralStep ==
  [][\A r \in Reqs :
       task[r].outcome = "" /\ task'[r].outcome = "clarification" =>
         /\ task'[r].pc = "done"
         /\ task'[r].executed = task[r].executed
         /\ task'[r].modelCalls = task[r].modelCalls
         /\ task'[r].gui = task[r].gui
         /\ conversationStore'[task[r].threadId] =
              SliceLast(task[r].history \o <<AssistantMsg(buildClarificationPrompt)>>,
                        HISTORY_LIMIT)
         /\ NoUnanswered(conversationStore'[task[r].threadId])]_vars

(* The gate deferred in the second round, after the tools of the first     *)
(* round had run.                                                          *)
C9_Witness ==
  \E r \in Reqs :
    /\ task[r].pc = "done"
    /\ task[r].outcome = "clarification"
    /\ task[r].modelCalls = 2
    /\ Len(task[r].executed) = 2
    /\ conversationStore[task[r].threadId] = StoredBy(r)

(* A scheduling question with an ambiguous time. *)
VagueQuestion(q) == hasSchedulingIntent(q) /\ hasAmbiguousTime(q)

(* A mutating call none of whose fields is given. *)
NoConcreteFields(call) ==
  /\ call.name \in MutationTools
  /\ \/ call.arguments.kind # "object"
     \/ ~(\/ Given(call.arguments.event_id) \/ Given(call.arguments.start_time)
          \/ Given(call.arguments.end_time) \/ Given(call.arguments.summary))

RequestedCalls(resp) ==
  IF Len(resp.tool_calls) > 0 THEN resp.tool_calls
  ELSE IF resp.function_call # NoCall THEN <<resp.function_call>>
  ELSE <<>>

RequestsVagueMutation(resp) ==
  /\ resp.present
  /\ \E i \in 1..Len(RequestedCalls(resp)) : NoConcreteFields(RequestedCalls(resp)[i])

(* C10: when the question has scheduling intent and an ambiguous time and  *)
(* the first response requests a mutating call without concrete fields,    *)
(* the request ends in that round in the clarification state, its text     *)
(* channel holds the clarification prompt and nothing else, and its        *)
(* mutation counter is 0.                                                  *)
C10_ScenarioB ==
  \A r \in Reqs :
    /\ VagueQuestion(task[r].question)
    /\ Len(task[r].responses) >= 1
    /\ RequestsVagueMutation(task[r].responses[1])
    => /\ task[r].pc = "done"
       /\ task[r].outcome = "clarification"
       /\ task[r].textStream = <<buildClarificationPrompt>>
       /\ task[r].refetchJobs = 0
       /\ task[r].refetchJobsStream = <<0>>

(* The same with the payloads left out that JSON.parse turns into null. *)
C10_ScenarioBExceptNull ==
  \A r \in Reqs :
    /\ VagueQuestion(task[r].question)
    /\ Len(task[r].responses) >= 1
    /\ RequestsVagueMutation(task[r].responses[1])
    /\ \A i \in 1..Len(RequestedCalls(task[r].responses[1])) :
         RequestedCalls(task[r].responses[1])[i].arguments.kind # "null"
    => /\ task[r].pc = "done"
       /\ task[r].outcome = "clarification"
       /\ task[r].textStream = <<buildClarificationPrompt>>
       /\ task[r].refetchJobs = 0
       /\ task[r].refetchJobsStream = <<0>>

(* C11: a request without an authenticated session returns the fixed     *)
(* "Not authenticated" result and nothing else happens: no stream is        *)
(* created, no model call is made, no tool is dispatched, the thread store  *)
(* is not touched by its step, and no background task runs afterwards.      *)
C11_Unauthenticated ==
  /\ [](\A r \in Reqs :
          task[r].pc = "unauthenticated" =>
            task[r] = [IdleTask EXCEPT !.pc = "unauthenticated",
                                       !.returned = "Not authenticated"])
  /\ [][\A r \in Reqs :
          /\ task[r].pc = "idle" /\ task'[r].pc = "unauthenticated"
               => conversationStore' = conversationStore
          /\ task[r].pc = "unauthenticated" => task'[r] = task[r]]_vars

(* The second request has no session, after the first one ran tools and    *)
(* stored its thread.                                                      *)
C11_Witness ==
  /\ task[2].pc = "unauthenticated"
  /\ task[2].returned = "Not authenticated"
  /\ task[1].pc = "done"
  /\ Len(task[1].executed) > 0
  /\ "t1" \in DOMAIN conversationStore

(* The requests whose extractor call has come back. *)
Extracted(r) == task[r].extractReply # NoReply

(* C12: the extractor never raises: whatever its model call comes to, it   *)
(* returns; what it returns is absent or a pair with end > start.          *)
C12_ExtractorNeverRaises ==
  \A r \in Reqs :
    Extracted(r) =>
      LET extracted == extractTimeRangeFromQuestion(task[r].extractReply) IN
      /\ ~extracted.threw
      /\ extracted.range.isNull \/ extracted.range.end > extracted.range.start
      /\ task[r].refetchRangeStream = <<extracted.range>>

(* The same for every reply but a response body without a choices array. *)
C12_ExtractorNeverRaisesWithChoices ==
  \A r \in Reqs :
    Extracted(r) /\ task[r].extractReply.kind # "no_choices_field" =>
      LET extracted == extractTimeRangeFromQuestion(task[r].extractReply) IN
      /\ ~extracted.threw
      /\ extracted.range.isNull \/ extracted.range.end > extracted.range.start
      /\ task[r].refetchRangeStream = <<extracted.range>>
      /\ task[r].extractReply.kind # "json" => extracted.range.isNull

(* The extractor's completion request failed or timed out. *)
ExtractionFailed(r) == task[r].extractReply.kind \in {"timeout", "transport"}

(* C13: when the extractor's call fails or times out the request goes on:  *)
(* the extracted-range stream gets one update, null, and no other; the     *)
(* step in which the extractor returns puts no error on the status stream  *)
(* and takes the task on to the call of loadAssistantConfig, from where it *)
(* enters the first round; the request is treated as one with no hint.     *)
C13_ExtractionFailureIsAdvisory ==
  /\ [](\A r \in Reqs :
          ExtractionFailed(r) =>
            /\ task[r].refetchRangeStream = <<NullRange>>
            /\ task[r].extractedRange = NullRange)
  /\ [][\A r \in Reqs :
          task[r].pc = "extract" /\ ExtractionFailed(r)' =>
            /\ task'[r].pc \in {"load", "config"}
            /\ task'[r].outcome = ""
            /\ \A i \in 1..Len(task'[r].status) :
                 task'[r].status[i] # "conversation.error"]_vars

(* After a timeout of the extractor the request ran a tool round and got   *)
(* its final answer.                                                       *)
C13_Witness ==
  \E r \in Reqs :
    /\ task[r].extractReply.kind = "timeout"
    /\ task[r].pc = "done"
    /\ task[r].outcome = "final"
    /\ Len(task[r].executed) > 0
    /\ task[r].refetchRangeStream = <<NullRange>>
    /\ task[r].threadId \in DOMAIN conversationStore

(* The result message of an unsupported tool is in h. *)
HoldsUnsupportedResult(h) ==
  \E j \in 1..Len(h) :
    /\ h[j].role \in {"tool", "function"}
    /\ h[j].content = ToolMsg(NoId, "error: Unsupported tool").content

(* C14: a requested tool whose name is none of the four known ones gets    *)
(* the "unsupported tool" error result with didMutate false; the result is *)
(* appended to the history as the tool result; the request is not aborted: *)
(* the mutation counter stays, and the task goes on to the next call or    *)
(* the next model round, or ends because the round budget is used up.      *)
C14_UnsupportedTool ==
  [][\A r \in Reqs :
       \A i \in (Len(task[r].executed) + 1)..Len(task'[r].executed) :
         task'[r].executed[i].name \notin KnownTools =>
           /\ task'[r].executed[i].output = "error: Unsupported tool"
           /\ ~task'[r].executed[i].didMutate
           /\ HoldsUnsupportedResult(task'[r].history)
           /\ Len(task'[r].history) > Len(task[r].history)
           /\ task'[r].outcome # "error"
           /\ \/ task'[r].pc \in {"timezone", "tool", "result", "model"}
              \/ task'[r].pc = "done" /\ task'[r].outcome = "exhausted"
           /\ task'[r].pc = "model" => task'[r].modelCalls = task[r].modelCalls + 1]_vars

(* A request whose first round asked for send_email and whose second round *)
(* gave the final answer.                                                  *)
C14_Witness ==
  \E r \in Reqs :
    /\ task[r].pc = "done"
    /\ task[r].outcome = "final"
    /\ task[r].modelCalls = 2
    /\ task[r].responses[1] = UnknownTool
    /\ Len(task[r].executed) = 1
    /\ task[r].executed[1].name = "send_email"
    /\ task[r].refetchJobsStream = <<0>>
    /\ HoldsUnsupportedResult(conversationStore[task[r].threadId])

(* The number of error phases on a status stream. *)
ErrorPhases(st) == Cardinality({i \in 1..Len(st) : st[i] = "conversation.error"})

(* C15: an exception inside the background task (the extractor, the        *)
(* configuration load, the model call of any round, the gate) is caught    *)
(* once: in that step the status stream gets the error phase, the error    *)
(* message is appended to the text channel, what was emitted before on the *)
(* text, gui, mutation-count and extracted-range streams stays, every      *)
(* stream is completed, and the caller keeps the stream handles it got.    *)
C15_CaughtOnce ==
  /\ [](\A r \in Reqs :
          /\ ErrorPhases(task[r].status) = (IF task[r].outcome = "error" THEN 1 ELSE 0)
          /\ task[r].outcome = "error" =>
               /\ task[r].pc = "done"
               /\ task[r].returned = "streams"
               /\ \A s \in StreamNames : task[r].done[s] = 1
               /\ task[r].lateWrites = 0)
  /\ [][\A r \in Reqs :
          task[r].outcome # "error" /\ task'[r].outcome = "error" =>
            /\ task'[r].status = Append(task[r].status, "conversation.error")
            /\ task'[r].textStream = Append(task[r].textStream, "Error: message")
            /\ task'[r].gui = task[r].gui
            /\ task'[r].refetchJobsStream = task[r].refetchJobsStream
            /\ task'[r].refetchRangeStream = task[r].refetchRangeStream
            /\ task'[r].threadIdStream = task[r].threadIdStream
            /\ task'[r].returned = task[r].returned]_vars

(* The model call of the second round failed after the first round had     *)
(* emitted gui events and a mutation count.                                *)
C15_Witness ==
  \E r \in Reqs :
    /\ task[r].outcome = "error"
    /\ task[r].modelCalls = 2
    /\ Len(task[r].gui) >= 4
    /\ task[r].refetchJobsStream = <<0, 1>>
    /\ task[r].textStream = <<"Error: message">>
    /\ task[r].status[Len(task[r].status)] = "conversation.error"

(* Request r ends in this step, after it had entered the loop. *)
EndsAfterLoop(r) ==
  task[r].pc \in {"model", "timezone", "tool", "result"} /\ task'[r].pc = "done"

(* The store holds the last HISTORY_LIMIT messages of r's working history. *)
StoredFrom(store, r) ==
  /\ task[r].threadId \in DOMAIN store
  /\ store[task[r].threadId] = SliceLast(task'[r].history, HISTORY_LIMIT)

(* C16: when the loop is left by any path (final answer, empty response,   *)
(* clarification, round budget used up, exception inside the loop) the     *)
(* store entry of the request's thread is set to the last 30 messages of   *)
(* its working history.                                                    *)
C16_StoredOnEveryExit ==
  [][\A r \in Reqs : EndsAfterLoop(r) => StoredFrom(conversationStore', r)]_vars

(* The same for the exits other than an exception. *)
C16_StoredOnNormalExit ==
  [][\A r \in Reqs :
       EndsAfterLoop(r) /\ task'[r].outcome # "error"
         => StoredFrom(conversationStore', r)]_vars

(* An exception inside the loop leaves the store as it was. *)
C16_NotStoredOnException ==
  [][\A r \in Reqs :
       EndsAfterLoop(r) /\ task'[r].outcome = "error"
         => conversationStore' = conversationStore]_vars

(* h is g with messages appended. *)
Extends(h, g) == Len(h) >= Len(g) /\ SubSeq(h, 1, Len(g)) = g

(* C17: the store is read once per request, when the loop is entered: the  *)
(* working history is the stored history of that moment plus the user's    *)
(* message, and from then on it only grows by appending.  The store        *)
(* changes only in the step in which a request leaves its loop, and then   *)
(* the entry of its thread becomes the last 30 messages of that request's  *)
(* working history, whatever another request wrote there in between: the   *)
(* last writer wins, nothing is merged.                                    *)
C17_LastWriteWins ==
  [][/\ \A r \in Reqs :
          /\ task[r].pc \in {"extract", "load", "config"} /\ task'[r].pc = "model" =>
               task'[r].history =
                 Append(StoreGet(conversationStore, task[r].threadId),
                        UserMsg(task[r].question))
          /\ task[r].pc \in {"model", "timezone", "tool", "result"} =>
               Extends(task'[r].history, task[r].history)
     /\ conversationStore' # conversationStore =>
          \E r \in Reqs :
            /\ EndsAfterLoop(r)
            /\ task'[r].outcome # "error"
            /\ conversationStore' =
                 StoreSet(conversationStore, task[r].threadId,
                          SliceLast(task'[r].history, HISTORY_LIMIT))]_vars

(* A lost update: both requests on thread t1 have ended with an answer,    *)
(* the first one after a tool round; the store holds the question and the  *)
(* answer of the second and nothing of the first.                          *)
C17_Witness ==
  /\ task[1].pc = "done" /\ task[1].outcome = "final"
  /\ task[2].pc = "done" /\ task[2].outcome = "final"
  /\ task[1].threadId = "t1" /\ task[2].threadId = "t1"
  /\ Len(task[1].executed) = 2
  /\ Len(task[2].executed) = 0
  /\ conversationStore["t1"] = <<UserMsg(QDelete), AssistantMsg("answer")>>

(* C18: an authenticated submitMessage returns the stream handles in the   *)
(* step in which it is called: at its return the background task is at its *)
(* first await, no model round or tool call has run and no stream is       *)
(* completed; the background task goes on after the return.                *)
C18_ReturnsBeforeLoop ==
  /\ [](\A r \in Reqs : Started(r) => task[r].returned = "streams")
  /\ [][\A r \in Reqs :
          task[r].pc = "idle" /\ Started(r)' =>
            /\ task'[r].pc = "extract"
            /\ task'[r].returned = "streams"
            /\ task'[r].modelCalls = 0
            /\ task'[r].executed = <<>>
            /\ task'[r].outcome = ""
            /\ \A s \in StreamNames : task'[r].done[s] = 0]_vars

(* After the return the background task is in its second round, with tool  *)
(* results behind it and no stream completed.                              *)
C18_Witness ==
  \E r \in Reqs :
    /\ task[r].returned = "streams"
    /\ task[r].pc = "model"
    /\ task[r].modelCalls = 2
    /\ Len(task[r].executed) = 2
    /\ \A s \in StreamNames : task[r].done[s] = 0

(* The requests awaiting the configuration: the one that started the load, *)
(* inside loadAssistantConfig, and those that were handed its promise.     *)
AwaitingConfig == {r \in Reqs : task[r].pc \in {"load", "config"}}

(* C19: a load is started only when no promise is cached, and then the     *)
(* promise is cached at once; while it is in flight no other load is       *)
(* started and every request that asks for the configuration is handed     *)
(* the promise of that load; when it completes all of them hold the        *)
(* completed load, and each goes on into its first round with it.          *)
C19_SingleInFlightLoad ==
  /\ [](\A r \in AwaitingConfig :
          /\ task[r].awaited \in {"pending", "fulfilled", "rejected"}
          /\ task[r].awaited = "pending" => assistantConfigPromise = "pending")
  /\ [][/\ configLoads' # configLoads =>
             /\ assistantConfigPromise = "null"
             /\ assistantConfigPromise' = "pending"
             /\ configLoads' = configLoads + 1
        /\ assistantConfigPromise = "pending" =>
             /\ configLoads' = configLoads
             /\ \A r \in Reqs :
                  task[r].pc = "extract" /\ task'[r].pc # "extract" =>
                    \/ task'[r].pc = "config" /\ task'[r].awaited = "pending"
                    \/ task'[r].pc = "done" /\ task'[r].outcome = "error"
        /\ assistantConfigPromise = "pending" /\ assistantConfigPromise' = "fulfilled" =>
             \A r \in Reqs :
               task'[r].awaited = "fulfilled" <=> task[r].awaited \in {"pending", "fulfilled"}
        /\ \A r \in Reqs :
             task[r].pc = "config" /\ task[r].awaited = "fulfilled"
               /\ task'[r] # task[r] => task'[r].pc = "model"]_vars

(* Cold start: one load was started, by the first request, and both        *)
(* requests await it.                                                      *)
C19_Witness ==
  /\ assistantConfigPromise = "pending"
  /\ configLoads = 1
  /\ task[1].pc = "load" /\ task[1].awaited = "pending"
  /\ task[2].pc = "config" /\ task[2].awaited = "pending"

(* None of the calls is a mutating one. *)
NoMutatingCall(calls) ==
  \A i \in 1..Len(calls) :
    calls[i].name \notin {"schedule_event", "edit_event", "delete_event"}

(* C20: when none of the requested calls is mutating the gate returns      *)
(* false, for every question (a no-action phrase included), every range    *)
(* and every argument payload.                                             *)
C20_NoMutationNeverDefers ==
  Evaluated /\ NoMutatingCall(gate.calls) => gate.result = "false"

(* A no-action question, no range, a get_calendar whose arguments are the  *)
(* JSON text null and an unknown tool: let through.                        *)
C20_Witness ==
  /\ gate.result = "false"
  /\ gate.question = <<"buyao-zhixing", "dagai">>
  /\ gate.extractedRange.isNull
  /\ Len(gate.calls) = 2
  /\ gate.calls[1] = ToolCall("call_a", "get_calendar", ArgsNull)
  /\ gate.calls[2] = ToolCall("call_a", "send_email", FullArgs)

(* Some mutating call of the list lacks an argument it needs. *)
SomeMutatingIncomplete(calls) ==
  \E i \in 1..Len(calls) :
    calls[i].name \in MutationTools /\ ~CompleteArgs(calls[i])

(* Whether the gate is to defer an incomplete mutating call. *)
IntentAndVagueTime(q, range) ==
  hasSchedulingIntent(q) /\ (hasAmbiguousTime(q) \/ range.isNull)

(* C21: with a mutating call whose arguments are not sufficient and a      *)
(* question that matches no no-action phrase, the gate returns true when   *)
(* the question has scheduling intent and either an ambiguous time or no   *)
(* extracted range, and false otherwise.                                   *)
C21_DefersOnIntentAndVagueTime ==
  Evaluated /\ SomeMutatingIncomplete(gate.calls) /\ ~MatchesNoAction(gate.question)
    => gate.result = (IF IntentAndVagueTime(gate.question, gate.extractedRange)
                        THEN "true" ELSE "false")

(* The same for lists in which no mutating call carries the JSON text      *)
(* null as its arguments.                                                  *)
C21_DefersOnIntentAndVagueTimeExceptNull ==
  /\ Evaluated
  /\ SomeMutatingIncomplete(gate.calls)
  /\ ~MatchesNoAction(gate.question)
  /\ \A i \in 1..Len(gate.calls) :
       gate.calls[i].name \in MutationTools => gate.calls[i].arguments.kind # "null"
  => gate.result = (IF IntentAndVagueTime(gate.question, gate.extractedRange)
                      THEN "true" ELSE "false")

(* C22: in the step in which the gate defers nothing of the round is       *)
(* dispatched (no progress event, no executed call, no change of the       *)
(* mutation counter), the history gains the clarification prompt as a      *)
(* plain assistant message and nothing else, the text channel gains the    *)
(* prompt, and the task is done; it makes no model call afterwards.        *)
C22_DeferralRound ==
  /\ [](\A r \in Reqs :
          task[r].outcome = "clarification" =>
            /\ task[r].pc = "done"
            /\ task[r].modelCalls = Len(task[r].responses)
            /\ task[r].history[Len(task[r].history)] =
                 AssistantMsg(buildClarificationPrompt)
            /\ task[r].textStream = <<buildClarificationPrompt>>)
  /\ [][\A r \in Reqs :
          /\ task[r].outcome = "" /\ task'[r].outcome = "clarification" =>
               /\ task'[r].gui = task[r].gui
               /\ task'[r].executed = task[r].executed
               /\ task'[r].refetchJobsStream = task[r].refetchJobsStream
               /\ task'[r].history =
                    Append(task[r].history, AssistantMsg(buildClarificationPrompt))
               /\ task'[r].textStream =
                    Append(task[r].textStream, buildClarificationPrompt)
          /\ task[r].outcome = "clarification" => task'[r] = task[r]]_vars

(* Deferred in the first round: a get_calendar was requested alongside an  *)
(* edit_event without a title; nothing ran.                                *)
C22_Witness ==
  \E r \in Reqs :
    /\ task[r].outcome = "clarification"
    /\ task[r].responses = <<ReadThenVagueEdit>>
    /\ task[r].gui = <<>>
    /\ task[r].executed = <<>>
    /\ task[r].history = <<UserMsg(task[r].question),
                           AssistantMsg(buildClarificationPrompt)>>
    /\ conversationStore[task[r].threadId] = task[r].history

(* The calls of r executed since the current round began, and, for a task *)
(* that has just left a round, the calls of that round.                    *)
ExecutedFrom(t, from) == SubSeq(t.executed, from + 1, Len(t.executed))

(* Message m is the result message of the executed call e. *)
IsResultOf(m, e) ==
  /\ m.role \in {"tool", "function"}
  /\ m.content = <<e.output>>
  /\ m.role = "function" => m.name = e.name

(* C23: when the provider call of a tool call fails, the dispatcher        *)
(* returns an error result with didMutate false and nothing is thrown; in  *)
(* the step that takes up that result the result message is appended, the  *)
(* request does not enter the error state, and the calls that follow in    *)
(* the round are executed in order: the next call of the round is          *)
(* dispatched, or every call of the round has been executed, each with its *)
(* result message, and the loop goes on.                                   *)
C23_ProviderErrorIsContained ==
  [][\A r \in Reqs :
       LET n == Len(task[r].executed)
           calls == task[r].executableToolCalls
           done == ExecutedFrom(task'[r], task[r].roundStart)
           h == task'[r].history
       IN
       /\ task[r].pc = "tool" /\ task'[r] # task[r]
            /\ task'[r].result.provider = "failed"
          => /\ task'[r].pc = "result"
             /\ task'[r].result.output = "error: detail"
             /\ ~task'[r].result.didMutate
             /\ task'[r].outcome = ""
             /\ task'[r].history = task[r].history
       /\ task[r].pc = "result" /\ task'[r] # task[r]
            /\ task[r].result.provider = "failed"
          => /\ Len(task'[r].executed) = n + 1
             /\ task'[r].executed[n + 1].provider = "failed"
             /\ task'[r].executed[n + 1].output = "error: detail"
             /\ ~task'[r].executed[n + 1].didMutate
             /\ task'[r].outcome # "error"
             /\ \A i \in 1..Len(done) :
                  /\ done[i].name = calls[i].name
                  /\ IsResultOf(h[Len(h) - Len(done) + i], done[i])
             /\ \/ /\ task'[r].pc \in {"timezone", "tool", "result"}
                   /\ task'[r].toolIdx = Len(done) + 1
                   /\ task'[r].toolIdx > task[r].toolIdx
                   /\ task'[r].toolIdx <= Len(calls)
                \/ /\ task'[r].pc \in {"model", "done"}
                   /\ Len(done) = Len(calls)
                   /\ task'[r].round = task[r].round + 1]_vars

(* The provider failed for the get_calendar of a round; the delete_event   *)
(* after it ran and succeeded, and the request got its final answer.       *)
C23_Witness ==
  \E r \in Reqs :
    /\ task[r].pc = "done"
    /\ task[r].outcome = "final"
    /\ Len(task[r].executed) = 2
    /\ task[r].executed[1].name = "get_calendar"
    /\ task[r].executed[1].provider = "failed"
    /\ task[r].executed[2].name = "delete_event"
    /\ task[r].executed[2].provider = "succeeded"
    /\ task[r].refetchJobsStream = <<0, 1>>

(* C24: the dispatcher reports didMutate true exactly for schedule_event,  *)
(* edit_event and delete_event whose provider call succeeded; get_calendar,*)
(* an unsupported name, a call that fails before the provider is reached   *)
(* and a call the provider rejects report false.                           *)
C24_DidMutateIffMutationSucceeded ==
  \A r \in Reqs :
    \A i \in 1..Len(task[r].executed) :
      LET e == task[r].executed[i] IN
      /\ e.didMutate <=>
           /\ e.name \in {"schedule_event", "edit_event", "delete_event"}
           /\ e.provider = "succeeded"
      /\ e.provider = "succeeded" <=> e.output = "data"
      /\ e.name \notin KnownTools => e.provider = "not called"

(* One request with a successful read, a successful delete, and a failed   *)
(* mutating call.                                                          *)
C24_Witness ==
  \E r \in Reqs :
    /\ \E i \in 1..Len(task[r].executed) :
         /\ task[r].executed[i].name = "get_calendar"
         /\ task[r].executed[i].provider = "succeeded"
         /\ ~task[r].executed[i].didMutate
    /\ \E i \in 1..Len(task[r].executed) :
         /\ task[r].executed[i].name = "delete_event"
         /\ task[r].executed[i].didMutate
    /\ \E i \in 1..Len(task[r].executed) :
         /\ task[r].executed[i].name \in MutationTools
         /\ task[r].executed[i].provider = "failed"
         /\ ~task[r].executed[i].didMutate

(* The in-flight load fails in this step. *)
LoadFails ==
  assistantConfigPromise = "pending" /\ assistantConfigPromise' # "fulfilled"
    /\ assistantConfigPromise' # "pending"

(* Request r calls loadAssistantConfig in this step. *)
CallsLoader(r) == task[r].pc = "extract" /\ task'[r].pc \in {"load", "config"}

(* C25: when the in-flight load fails every request awaiting it gets the   *)
(* failure and ends in the error state without a model call; the request   *)
(* that started the load clears the cache when it resumes, before any      *)
(* request ends because of the failure and before any request calls the    *)
(* loader; no request is ever handed the failed load, and the next request *)
(* that calls the loader finds the cache empty and starts a new load; the  *)
(* cache never holds a failure for good.                                   *)
C25_FailedLoadIsCleared ==
  /\ [](assistantConfigPromise = "rejected" =>
          \E r \in Reqs : task[r].pc = "load" /\ task[r].awaited = "rejected")
  /\ [][/\ LoadFails =>
             /\ configLoads' = configLoads
             /\ \E r \in Reqs : task[r].awaited = "pending"
             /\ \A r \in Reqs :
                  task[r].awaited = "pending" => task'[r].awaited = "rejected"
        /\ \A r \in Reqs :
             /\ task[r].pc = "load" /\ task[r].awaited = "rejected"
                  /\ task'[r] # task[r] =>
                  task'[r].pc = "config" /\ assistantConfigPromise' = "null"
             /\ task[r].pc = "config" /\ task[r].awaited = "rejected"
                  /\ task'[r] # task[r] =>
                  /\ assistantConfigPromise # "rejected"
                  /\ task'[r].pc = "done" /\ task'[r].outcome = "error"
                  /\ task'[r].modelCalls = 0
             /\ CallsLoader(r) =>
                  /\ assistantConfigPromise # "rejected"
                  /\ task'[r].awaited \in {"pending", "fulfilled"}
             /\ CallsLoader(r) /\ assistantConfigPromise = "null" =>
                  /\ assistantConfigPromise' = "pending"
                  /\ task'[r].pc = "load"
                  /\ configLoads' = configLoads + 1]_vars

(* The first load failed for the first request; the second request started *)
(* a second load, which completed, and is in its first round.              *)
C25_Witness ==
  /\ task[1].pc = "done" /\ task[1].outcome = "error" /\ task[1].modelCalls = 0
  /\ configLoads = 2
  /\ assistantConfigPromise = "fulfilled"
  /\ task[2].pc = "model"

(* C26: once a load has completed the cache keeps it: it is never cleared  *)
(* or replaced, no other load is started, and a request that asks for the  *)
(* configuration is handed the completed load and enters its first round   *)
(* with it.                                                                *)
C26_CompletedLoadIsKept ==
  [][assistantConfigPromise = "fulfilled" =>
       /\ assistantConfigPromise' = "fulfilled"
       /\ configLoads' = configLoads
       /\ \A r \in Reqs :
            /\ task[r].pc = "extract" /\ task'[r].pc # "extract" =>
                 \/ task'[r].pc = "config" /\ task'[r].awaited = "fulfilled"
                 \/ task'[r].pc = "done" /\ task'[r].outcome = "error"
            /\ task[r].pc = "config" /\ task[r].awaited = "fulfilled"
                 /\ task'[r] # task[r] => task'[r].pc = "model"]_vars

(* After the one load of a cold start both requests have run their loops. *)
C26_Witness ==
  /\ assistantConfigPromise = "fulfilled"
  /\ configLoads = 1
  /\ task[1].pc = "done" /\ task[1].modelCalls >= 1
  /\ task[2].pc = "done" /\ task[2].modelCalls >= 1
  /\ task[2].status[3] = "conversation.model_round_1"

(* The background task of r has run its finally block. *)
AllStreamsCompleted(r) ==
  task[r].pc = "done" /\ \A s \in StreamNames : task[r].done[s] = 1

(* C27: when every awaited operation settles, every started background     *)
(* task reaches a terminal state (final answer, empty response,            *)
(* clarification, budget used up, error) and the done state with all its   *)
(* streams completed; nothing cancels it on the way.                       *)
C27_EveryTaskCompletes ==
  \A r \in Reqs :
    Started(r) ~> (/\ AllStreamsCompleted(r)
                   /\ task[r].outcome \in {"final", "empty", "clarification",
                                           "exhausted", "error"})

(* Both requests have run to their ends, one through a tool round to its   *)
(* answer, one into the error state.                                       *)
C27_Witness ==
  /\ AllStreamsCompleted(1) /\ AllStreamsCompleted(2)
  /\ task[1].outcome = "final" /\ Len(task[1].executed) = 2
  /\ task[2].outcome = "error"

(* The request message the loop records for a response that asks for tools. *)
RequestMsg(resp) ==
  IF Len(resp.tool_calls) > 0
    THEN AssistantToolCallsMsg(resp.content, resp.tool_calls)
    ELSE AssistantFunctionCallMsg(resp.content, resp.function_call)

(* The calls a response asks for, in the order it asks for them. *)
ExecutableCalls(resp) ==
  IF Len(resp.tool_calls) > 0
    THEN resp.tool_calls
    ELSE <<ToolCall(NoId, resp.function_call.name, resp.function_call.arguments)>>

(* The history of t ends with the request message of the last response     *)
(* followed by the result messages of its first n calls, in request order, *)
(* and these n calls are the ones executed from position from on.          *)
RoundInOrder(t, from, n) ==
  LET h == t.history
      resp == t.responses[Len(t.responses)]
      calls == ExecutableCalls(resp)
      done == ExecutedFrom(t, from)
  IN  /\ t.executableToolCalls = calls
      /\ Len(done) = n
      /\ Len(h) > n
      /\ h[Len(h) - n] = RequestMsg(resp)
      /\ \A k \in 1..n :
           LET m == h[Len(h) - n + k]
           IN  /\ done[k].name = calls[k].name
               /\ IsResultOf(m, done[k])
               /\ m.role = "tool" <=> Len(resp.tool_calls) > 0
               /\ calls[k].id # NoId => m.tool_call_id = calls[k].id

(* C28: in a round that is not deferred the request message is in the     *)
(* history before the first dispatch, and the calls run one at a time in   *)
(* request order.  While call number i is with the dispatcher (its         *)
(* provider call is awaited, or its result is not yet taken up), the       *)
(* history ends with the request followed by the results of calls      *)
(* 1..i-1 and nothing of call i or later has been executed; when the round *)
(* is over (the next completion request is out, or the budget is used up)  *)
(* the history ends with the request followed by the results of all its    *)
(* calls in request order.                                                 *)
C28_CallsRunInRequestOrder ==
  \A r \in Reqs :
    LET t == task[r]
        n == Len(t.executableToolCalls)
    IN  /\ t.pc \in {"timezone", "tool", "result"}
           => /\ t.toolIdx \in 1..n
              /\ RoundInOrder(t, t.roundStart, t.toolIdx - 1)
        /\ \/ t.pc = "model" /\ t.round >= 1
           \/ t.pc = "done" /\ t.outcome = "exhausted"
           => /\ Len(t.executed) >= n
              /\ RoundInOrder(t, Len(t.executed) - n, n)

(* The provider call of the second call of a round is awaited after the    *)
(* first call returned; and a round of two calls is over.                  *)
C28_Witness ==
  \E r \in Reqs :
    /\ task[r].pc = "tool"
    /\ task[r].toolIdx = 2
    /\ task[r].round = 1
    /\ Len(task[r].executed) = 3
    /\ task[r].executed[3].name = "get_calendar"

(* The response that request r received in this step, if it received one. *)
ReceivesResponse(r) ==
  /\ task[r].pc = "model"
  /\ Len(task'[r].responses) = Len(task[r].responses) + 1

LastResponse(t) == t.responses[Len(t.responses)]

(* A message that carries neither tool calls nor a function call. *)
IsPlainMessage(resp) ==
  resp.present /\ Len(resp.tool_calls) = 0 /\ resp.function_call = NoCall

(* The step of r that received a plain message put text on the text stream *)
(* and at the end of the history, and ended the request: the loop is left, *)
(* no completion request is issued, no tool call is dispatched, the        *)
(* history is stored.                                                      *)
EndsWithAnswer(r, text) ==
  /\ task'[r].textStream = Append(task[r].textStream, text)
  /\ task'[r].history = Append(task[r].history, AssistantMsg(text))
  /\ task'[r].pc = "done"
  /\ task'[r].outcome = "final"
  /\ task'[r].modelCalls = task[r].modelCalls
  /\ task'[r].executed = task[r].executed
  /\ task'[r].gui = task[r].gui
  /\ conversationStore'[task[r].threadId] = SliceLast(task'[r].history, HISTORY_LIMIT)

(* A finished request takes no further step. *)
DoneIsFinal(r) == task[r].pc = "done" => task'[r] = task[r]

(* C29 as stated: a message without tool calls and without function call   *)
(* has its text emitted on the text stream and appended to the history as   *)
(* an assistant message, and the request ends there.                        *)
C29_MessageTextIsFinalAnswer ==
  [][\A r \in Reqs :
       /\ ReceivesResponse(r) /\ IsPlainMessage(LastResponse(task'[r]))
          => EndsWithAnswer(r, LastResponse(task'[r]).content)
       /\ DoneIsFinal(r)]_vars

(* C29, amended: the text emitted and appended is the content of the        *)
(* message, or "No response from model." when the content is missing or    *)
(* empty; the request ends there: no further completion request and no     *)
(* tool dispatch.                                                          *)
C29_TextOrFallbackIsFinalAnswer ==
  [][\A r \in Reqs :
       /\ ReceivesResponse(r) /\ IsPlainMessage(LastResponse(task'[r]))
          => EndsWithAnswer(r, IF LastResponse(task'[r]).content = ""
                                 THEN "No response from model."
                                 ELSE LastResponse(task'[r]).content)
       /\ DoneIsFinal(r)]_vars

(* After a round of two tool calls the model sent a message without text   *)
(* and without calls: the request ended with the fallback text on the text *)
(* stream and at the end of the stored history.                            *)
C29_Witness ==
  \E r \in Reqs :
    /\ task[r].pc = "done" /\ task[r].outcome = "final"
    /\ LastResponse(task[r]) = EmptyAnswer
    /\ Len(task[r].executed) = 2
    /\ task[r].textStream = <<"No response from model.">>
    /\ task[r].history[Len(task[r].history)] = AssistantMsg("No response from model.")
    /\ conversationStore[task[r].threadId] = task[r].history

(* C30: when the completion of a round carries no message, the fallback    *)
(* text is emitted on the text stream and the request ends as after a      *)
(* final answer (no error status, all streams completed): nothing is       *)
(* appended to the history in that round, no further completion request is *)
(* issued and nothing is dispatched, and the history as it was before the  *)
(* round is stored.                                                        *)
C30_NoMessageEndsWithFallback ==
  [][\A r \in Reqs :
       /\ ReceivesResponse(r) /\ ~LastResponse(task'[r]).present
          => /\ task'[r].textStream =
                  Append(task[r].textStream, "No response from model.")
             /\ task'[r].history = task[r].history
             /\ AllStreamsCompleted(r)'
             /\ task'[r].outcome = "empty"
             /\ task'[r].status = task[r].status
             /\ task'[r].modelCalls = task[r].modelCalls
             /\ task'[r].executed = task[r].executed
             /\ conversationStore'[task[r].threadId] =
                  SliceLast(task[r].history, HISTORY_LIMIT)
       /\ task[r].pc = "done" /\ task[r].outcome = "empty" => task'[r] = task[r]]_vars

(* After a round of two tool calls the completion of the second round had  *)
(* no message: the request ended with the fallback text, and the stored    *)
(* history ends with the result of the second call.                        *)
C30_Witness ==
  \E r \in Reqs :
    /\ task[r].pc = "done" /\ task[r].outcome = "empty"
    /\ LastResponse(task[r]) = NoMessage
    /\ Len(task[r].executed) = 2
    /\ task[r].modelCalls = 2
    /\ task[r].textStream = <<"No response from model.">>
    /\ task[r].history[Len(task[r].history)].role = "tool"
    /\ conversationStore[task[r].threadId] = task[r].history

(* The messages of h after its last user message that are results of tool  *)
(* calls: the result messages of the request that pushed that user message. *)
LastUserIndex(h) ==
  CHOOSE i \in 1..Len(h) :
    h[i].role = "user" /\ \A j \in (i + 1)..Len(h) : h[j].role # "user"

IsResultMsg(m) == m.role \in {"tool", "function"}

ResultsOfRequest(h) ==
  SelectSeq(SubSeq(h, LastUserIndex(h) + 1, Len(h)), IsResultMsg)

(* Every round of t so far got a response that asked for tools. *)
EveryRoundRequestedTools(t) ==
  \A i \in 1..Len(t.responses) : RequestsTools(t.responses[i])

(* The stores the program can start from. *)
InitialStores ==
  {IF seed = <<>> THEN [k \in {} |-> <<>>] ELSE [k \in {"t1"} |-> seed] :
     seed \in SeedHistories}

(* The number of tool calls the first k responses asked for. *)
RECURSIVE CallsOfRounds(_, _)
CallsOfRounds(responses, k) ==
  IF k = 0 THEN 0
  ELSE CallsOfRounds(responses, k - 1)
         + (IF Len(responses[k].tool_calls) > 0 THEN Len(responses[k].tool_calls)
                                                ELSE 1)

(* What the gate says of the calls of the last response of t. *)
LastRoundGate(t) ==
  LET resp == t.responses[Len(t.responses)]
      executable == IF Len(resp.tool_calls) > 0
                      THEN resp.tool_calls
                      ELSE <<ToolCall(NoId, resp.function_call.name,
                                      resp.function_call.arguments)>>
  IN  shouldAskClarificationBeforeMutation(t.question, t.extractedRange, executable)

(* The history sent with the completion request of a round holds the       *)
(* result message of every tool call the request has executed so far, in   *)
(* execution order.                                                        *)
NextRoundSeesAllResults(t) ==
  LET results == ResultsOfRequest(t.history)
  IN  t.pc = "model"
        => /\ Len(results) = Len(t.executed)
           /\ \A k \in 1..Len(results) : IsResultOf(results[k], t.executed[k])

(* The request is over and each of its eight rounds asked for tools. *)
ToolsInAllRounds(t) ==
  /\ t.pc = "done"
  /\ Len(t.responses) = MAX_TOOL_ROUNDS
  /\ EveryRoundRequestedTools(t)

(* The calls of all eight rounds were executed; there were eight           *)
(* completion requests, there is no text, and the stored history ends with *)
(* the result of the last call.                                            *)
StoppedSilently(t) ==
  LET results == ResultsOfRequest(t.history)
  IN  /\ t.outcome = "exhausted"
      /\ t.round = MAX_TOOL_ROUNDS
      /\ t.modelCalls = MAX_TOOL_ROUNDS
      /\ t.textStream = <<>>
      /\ Len(t.executed) = CallsOfRounds(t.responses, MAX_TOOL_ROUNDS)
      /\ Len(results) = Len(t.executed)
      /\ IsResultOf(t.history[Len(t.history)], t.executed[Len(t.executed)])
      /\ LET stored == conversationStore[t.threadId]
         IN  /\ stored = SliceLast(t.history, HISTORY_LIMIT)
             /\ IsResultMsg(stored[Len(stored)])

(* C31 as stated: the next round sees all results so far; and a request    *)
(* whose eight rounds all asked for tools has executed the calls of the    *)
(* eighth round too, has issued eight completion requests and no more, has *)
(* nothing on the text stream, and its stored history ends with a result   *)
(* message, not an assistant answer.                                       *)
C31_EighthRoundAlwaysExecuted ==
  \A r \in Reqs :
    /\ NextRoundSeesAllResults(task[r])
    /\ ToolsInAllRounds(task[r]) => StoppedSilently(task[r])

(* C31: the next round sees all results so far; and a request whose eight  *)
(* rounds all asked for tools has issued eight completion requests and no  *)
(* more, and ends in one of three ways, decided by the gate on the calls   *)
(* of the eighth round.  If the gate lets them through they are executed,  *)
(* nothing is on the text stream and the stored history ends with a result *)
(* message.  If the gate defers them, none of them is executed, the        *)
(* clarification prompt is the only text and the stored history ends with  *)
(* it as an assistant message.  If the gate cannot parse their arguments,  *)
(* none of them is executed, the error text is the only text and nothing   *)
(* is stored.                                                              *)
C31_BudgetExhaustedStopsSilently ==
  \A r \in Reqs :
    LET t == task[r]
        seven == CallsOfRounds(t.responses, MAX_TOOL_ROUNDS - 1)
    IN  /\ NextRoundSeesAllResults(t)
        /\ ToolsInAllRounds(t) =>
             /\ t.modelCalls = MAX_TOOL_ROUNDS
             /\ LastRoundGate(t) = "false" => StoppedSilently(t)
             /\ LastRoundGate(t) = "true" =>
                  /\ t.outcome = "clarification"
                  /\ Len(t.executed) = seven
                  /\ t.textStream = <<buildClarificationPrompt>>
                  /\ LET stored == conversationStore[t.threadId]
                     IN  /\ stored = SliceLast(t.history, HISTORY_LIMIT)
                         /\ stored[Len(stored)] = AssistantMsg(buildClarificationPrompt)
                         /\ IsResultMsg(stored[Len(stored) - 1])
             /\ LastRoundGate(t) = "throws" =>
                  /\ t.outcome = "error"
                  /\ Len(t.executed) = seven
                  /\ t.textStream = <<"Error: message">>
                  /\ conversationStore \in InitialStores

(* The gate deferred the calls of the eighth round: the request ends with  *)
(* the clarification prompt as its text.                                   *)
C31_DeferredInLastRound ==
  \E r \in Reqs :
    /\ ToolsInAllRounds(task[r])
    /\ LastRoundGate(task[r]) = "true"
    /\ task[r].outcome = "clarification"

(* The gate could not parse the calls of the eighth round. *)
C31_ThrewInLastRound ==
  \E r \in Reqs :
    /\ ToolsInAllRounds(task[r])
    /\ LastRoundGate(task[r]) = "throws"
    /\ task[r].outcome = "error"

(* Eight rounds of two tool calls each: the request is over after the      *)
(* sixteenth call, without text, and the store ends with a tool result.    *)
C31_Witness ==
  \E r \in Reqs :
    /\ task[r].pc = "done"
    /\ task[r].outcome = "exhausted"
    /\ Len(task[r].executed) = 2 * MAX_TOOL_ROUNDS
    /\ task[r].modelCalls = MAX_TOOL_ROUNDS
    /\ task[r].textStream = <<>>
    /\ conversationStore[task[r].threadId][HISTORY_LIMIT].role = "tool"

(* The status labels of the first k rounds. *)
RoundLabels(k) == [i \in 1..k |-> "conversation.model_round_" \o ToString(i)]

(* The phases request r has gone through, as its status stream and its     *)
(* text stream show them: init, extract_range, the rounds 1..k it has      *)
(* begun (k <= MAX_TOOL_ROUNDS), and, once it is over, one ending: the      *)
(* error label with the error text, or the clarification prompt, or a      *)
(* normal end of the loop (an answer, the fallback text, or no text when   *)
(* the budget is used up); its streams are completed exactly when it is    *)
(* over.                                                                   *)
PhasesInOrder(t) ==
  LET k == t.modelCalls
      begun == <<"conversation.init", "conversation.extract_range">> \o RoundLabels(k)
  IN  /\ k \in 0..MAX_TOOL_ROUNDS
      /\ t.status = IF t.outcome = "error" THEN Append(begun, "conversation.error")
                                           ELSE begun
      /\ k >= 1 => /\ t.extractReply # NoReply
                   /\ t.refetchRangeStream = <<t.extractedRange>>
      /\ t.pc = "extract" => k = 0 /\ t.refetchRangeStream = <<>>
      /\ t.pc = "done" <=> t.outcome # ""
      /\ t.outcome \in {"", "final", "empty", "clarification", "exhausted", "error"}
      /\ \A s \in StreamNames : t.done[s] = IF t.pc = "done" THEN 1 ELSE 0
      /\ t.outcome = "" => t.textStream = <<>>
      /\ t.outcome = "error" => t.textStream = <<"Error: message">>
      /\ t.outcome = "clarification" => t.textStream = <<buildClarificationPrompt>> /\ k >= 1
      /\ t.outcome = "final"
           => Len(t.textStream) = 1 /\ k >= 1
              /\ t.textStream[1] \notin {"Error: message", buildClarificationPrompt}
      /\ t.outcome = "empty" => t.textStream = <<"No response from model.">> /\ k >= 1
      /\ t.outcome = "exhausted" => t.textStream = <<>> /\ k = MAX_TOOL_ROUNDS

(* C32: every started request goes through init, extract_range, the rounds *)
(* 1..k with consecutive numbers and k at most 8, then one ending (a       *)
(* normal end of the loop, the clarification, or the error), then done;    *)
(* the labels on its status stream are in that order, no round begins      *)
(* before the extractor has returned, and a request that is done takes no  *)
(* further step.                                                           *)
C32_PhasesInOrder ==
  /\ [](\A r \in Reqs : Started(r) => PhasesInOrder(task[r]))
  /\ [][\A r \in Reqs :
         /\ task[r].pc = "done" => task'[r] = task[r]
         /\ Started(r) /\ task'[r].modelCalls > task[r].modelCalls
            => /\ task'[r].modelCalls = task[r].modelCalls + 1
               /\ task[r].pc # "extract" \/ task'[r].extractReply # NoReply]_vars

(* A request whose completion request failed in its second round: init,    *)
(* extract_range, two rounds, error, done.                                 *)
C32_Witness ==
  \E r \in Reqs :
    /\ task[r].pc = "done"
    /\ task[r].status = <<"conversation.init", "conversation.extract_range",
                          "conversation.model_round_1", "conversation.model_round_2",
                          "conversation.error">>
    /\ Len(task[r].executed) = 2

(* A response that carries only a legacy function call, and the response   *)
(* that carries the same call as a one-element tool-call list with the     *)
(* given id.                                                               *)
IsLegacyResponse(resp) ==
  resp.present /\ Len(resp.tool_calls) = 0 /\ resp.function_call # NoCall

AsToolCallList(resp, id) ==
  Response(TRUE, resp.content,
           <<ToolCall(id, resp.function_call.name, resp.function_call.arguments)>>,
           NoCall)

WithoutId(call) == [call EXCEPT !.id = NoId]

WithoutIds(calls) == [i \in 1..Len(calls) |-> WithoutId(calls[i])]

(* A message with the wire shape taken out: a function_call request reads  *)
(* as a one-element tool_calls request, a function result as a tool        *)
(* result, and call ids are dropped.                                       *)
WithoutShape(m) ==
  IF m.role = "assistant" /\ m.function_call # NoCall
    THEN Msg("assistant", m.content, <<WithoutId(m.function_call)>>, NoCall, NoId, "")
  ELSE IF m.role = "assistant"
    THEN Msg("assistant", m.content, WithoutIds(m.tool_calls), NoCall, NoId, "")
  ELSE IF m.role \in {"tool", "function"}
    THEN Msg("tool", m.content, <<>>, NoCall, NoId, "")
  ELSE m

HistoryWithoutShape(h) == [i \in 1..Len(h) |-> WithoutShape(h[i])]

(* Everything of a request but the wire shape: its streams, counters,      *)
(* position, outcome, executed calls, and its history without the shape.   *)
Downstream(t) ==
  [t EXCEPT !.history = HistoryWithoutShape(@),
            !.executableToolCalls = WithoutIds(@),
            !.usesToolCalls = TRUE, !.ids = 0, !.responses = <<>>]

StoreWithoutShape(store) ==
  [k \in DOMAIN store |-> HistoryWithoutShape(store[k])]

(* C33: a response that carries only a legacy function call is handled as  *)
(* the response that carries the same call as a one-element tool-call list *)
(* (with or without an id) would be from the same state: the same gate     *)
(* decision, the same dispatcher call and result, the same mutation count, *)
(* the same streams and store save for the wire shape of the history       *)
(* records; and a legacy round that was executed leaves one assistant      *)
(* record followed by exactly one result message.                          *)
C33_LegacyCallLikeOneToolCall ==
  [][\A r \in Reqs :
       /\ ReceivesResponse(r) /\ IsLegacyResponse(LastResponse(task'[r]))
          => \A id \in {NoId, "call_a"} :
               LET twin == ProcessResponse(r, task[r],
                                           AsToolCallList(LastResponse(task'[r]), id))
               IN  /\ Downstream(task'[r]) = Downstream(Finish(twin))
                   /\ StoreWithoutShape(conversationStore')
                        = StoreWithoutShape(StoreAfter(conversationStore, twin))
       /\ task[r].pc = "tool" /\ ~task[r].usesToolCalls /\ task'[r] # task[r]
          => LET call == task[r].executableToolCalls[task[r].toolIdx]
                 ok == task'[r].result.provider = "succeeded"
                 twin == ReturnResult([task[r] EXCEPT !.usesToolCalls = TRUE],
                                      executeCalendarTool(call, ok))
             IN  /\ Downstream(task'[r]) = Downstream(twin)
                 /\ conversationStore' = conversationStore
       /\ task[r].pc = "result" /\ ~task[r].usesToolCalls /\ task'[r] # task[r]
          => LET call == task[r].executableToolCalls[task[r].toolIdx]
                 twin == Dispatch(r, RecordResult(r, [task[r] EXCEPT
                                                        !.usesToolCalls = TRUE],
                                                  call, task[r].result))
                 h == task'[r].history
             IN  /\ Downstream(task'[r]) = Downstream(Finish(twin))
                 /\ StoreWithoutShape(conversationStore')
                      = StoreWithoutShape(StoreAfter(conversationStore, twin))
                 /\ Len(task[r].executableToolCalls) = 1
                 /\ Len(task'[r].executed) = Len(task[r].executed) + 1
                 /\ Len(h) = Len(task[r].history) + 1
                 /\ h[Len(h) - 1] = AssistantFunctionCallMsg(
                                       LastResponse(task[r]).content,
                                       LastResponse(task[r]).function_call)
                 /\ h[Len(h)] = FunctionMsg(call.name, task[r].result.output)]_vars

(* A legacy delete_event was executed and counted as a mutation after a    *)
(* round of two tool calls, and the request then got its answer.           *)
C33_Witness ==
  \E r \in Reqs :
    /\ task[r].pc = "done" /\ task[r].outcome = "final"
    /\ task[r].responses = <<ReadThenDelete, LegacyDelete, TextAnswer>>
    /\ Len(task[r].executed) = 3
    /\ task[r].executed[3].didMutate
    /\ task[r].refetchJobsStream = <<0, 1, 2>>
    /\ task[r].history[Len(task[r].history) - 1].role = "function"

(* C34: a request that ends with an exception writes nothing to the thread *)
(* store.  An entry of the store is created or changed only in a step in   *)
(* which a request on that thread ends without exception; and where the    *)
(* request is the only one, the store after its failure is the store from  *)
(* before it: neither the user's message nor the records and results of    *)
(* the rounds it completed are stored, whatever these rounds mutated.      *)
C34_FailedRequestStoresNothing ==
  /\ [](\A r \in Reqs :
          /\ env.requests = 1
          /\ task[r].pc = "done" /\ task[r].outcome = "error"
          => conversationStore \in InitialStores)
  /\ [][\A k \in DOMAIN conversationStore' :
         k \notin DOMAIN conversationStore \/ conversationStore'[k] # conversationStore[k]
         => \E o \in Reqs :
              /\ task[o].pc # "done" /\ task'[o].pc = "done"
              /\ task'[o].outcome # "error"
              /\ task[o].threadId = k]_vars

(* The completion request of the second round failed after the first round *)
(* had deleted an event and the mutation count 1 had been emitted: the     *)
(* request's new thread has no entry in the store.                         *)
C34_Witness ==
  \E r \in Reqs :
    /\ task[r].pc = "done" /\ task[r].outcome = "error"
    /\ task[r].modelCalls = 2
    /\ task[r].refetchJobsStream = <<0, 1>>
    /\ Len(task[r].history) = 4
    /\ task[r].threadId \notin DOMAIN conversationStore
    /\ conversationStore \in InitialStores

(* The written content of the streams of a request, by stream name. *)
Written(t) ==
  [status |-> t.status, text |-> t.textStream, gui |-> t.gui,
   refetchJobs |-> t.refetchJobsStream, refetchRange |-> t.refetchRangeStream]

(* C35: no stream of a request is written after it has been completed.  No *)
(* write (status, text, gui, mutation count, extracted range) finds its    *)
(* stream completed, on any exit path, the error handler included; a step  *)
(* that changes the content of a stream starts with that stream open; and  *)
(* every stream is completed at most once.                                 *)
C35_NoWriteAfterCompletion ==
  /\ [](\A r \in Reqs :
          /\ task[r].lateWrites = 0
          /\ \A s \in StreamNames : task[r].done[s] <= 1)
  /\ [][\A r \in Reqs : \A s \in DOMAIN Written(task[r]) :
         Written(task'[r])[s] # Written(task[r])[s] => task[r].done[s] = 0]_vars

(* A request that failed in its second round after a round of tool calls:  *)
(* the error handler wrote the status and the text, and all streams are    *)
(* completed.                                                              *)
C35_Witness ==
  \E r \in Reqs :
    /\ task[r].pc = "done" /\ task[r].outcome = "error"
    /\ task[r].modelCalls = 2
    /\ Len(task[r].gui) >= 2
    /\ task[r].textStream = <<"Error: message">>
    /\ task[r].status[Len(task[r].status)] = "conversation.error"
    /\ \A s \in StreamNames : task[r].done[s] = 1
    /\ task[r].lateWrites = 0

(* Call c of refetchEvents takes this step. *)
RefetchStep(c) == refetch'[c] # refetch[c]

StoreUntouched == events' = events /\ cachedRanges' = cachedRanges

HasRange(ranges, start, end) ==
  \E i \in 1..Len(ranges) : ranges[i] = Range(start, end)

(* C36: a call of refetchEvents whose fetch of some range is answered not  *)
(* ok or throws (the fetch or the reading of the body) changes neither     *)
(* events nor cachedRanges, whatever it fetched for earlier ranges; nor    *)
(* does a call change them when it starts, when a response arrives or when *)
(* it goes on to its next range.  Only the step in which the body of the   *)
(* ok answer for the last range has been read merges the fetched events    *)
(* and, for an explicit (start, end), records the range; without explicit  *)
(* range cachedRanges stays as it is.                                      *)
C36_AllOrNothing ==
  [][\A c \in RefetchCalls :
       LET call == refetch[c]
       IN  /\ RefetchStep(c) /\ refetch'[c].outcome = "failed"
              => StoreUntouched /\ refetch'[c].toast # ""
           /\ RefetchStep(c) /\ refetch'[c].pc \in {"fetch", "json", "text"}
              => StoreUntouched
           /\ RefetchStep(c) /\ refetch'[c].outcome = "merged"
              => /\ call.pc = "json"
                 /\ call.idx = Len(call.rangesToFetch)
                 /\ \A j \in 1..Len(call.newEvents \o call.body) :
                      \E i \in 1..Len(events') :
                        events'[i].id = (call.newEvents \o call.body)[j].id
                 /\ IF IsExplicit(call.start, call.end)
                      THEN HasRange(cachedRanges', call.start, call.end)
                      ELSE cachedRanges' = cachedRanges]_vars

(* The fetch of the second cached range failed after the first had been    *)
(* answered with the provider's events: the store has no event.            *)
C36_Witness ==
  \E c \in RefetchCalls :
    /\ refetch[c].outcome = "failed"
    /\ refetch[c].idx = 2
    /\ events = <<>>
    /\ cachedRanges = <<Range("d1", "d2"), Range("d2", "d3")>>
    /\ ~provider.held["b"].deleted

UniqueIds(list) ==
  \A i, j \in 1..Len(list) : list[i].id = list[j].id => i = j

HasId(list, id) == \E i \in 1..Len(list) : list[i].id = id

(* The last event of list with the id. *)
LastWithId(list, id) ==
  list[CHOOSE i \in 1..Len(list) :
         list[i].id = id /\ \A j \in (i + 1)..Len(list) : list[j].id # id]

CountRange(ranges, r) == Cardinality({i \in 1..Len(ranges) : ranges[i] = r})

(* C37: the step in which a call of refetchEvents succeeds merges by id.   *)
(* With ids unique in the store before: a stored event whose id was        *)
(* fetched is replaced in place by the event fetched last under that id,   *)
(* every other stored event stays where it is (also one the provider no    *)
(* longer has), the fetched events with new ids are appended, no event is  *)
(* removed, and the ids are unique afterwards.  An explicit (start, end)   *)
(* is appended to cachedRanges unless it is there, so with no duplicate    *)
(* before there is none after, however the calls interleave; no range is   *)
(* removed.                                                                *)
C37_MergeById ==
  [][\A c \in RefetchCalls :
       RefetchStep(c) /\ refetch'[c].outcome = "merged" /\ UniqueIds(events)
       => LET call == refetch[c]
              fetched == call.newEvents \o call.body
              r == Range(call.start, call.end)
          IN  /\ Len(events') >= Len(events)
              /\ \A i \in 1..Len(events) :
                   events'[i] = IF HasId(fetched, events[i].id)
                                  THEN LastWithId(fetched, events[i].id)
                                  ELSE events[i]
              /\ \A i \in (Len(events) + 1)..Len(events') :
                   /\ ~HasId(events, events'[i].id)
                   /\ events'[i] = LastWithId(fetched, events'[i].id)
              /\ \A j \in 1..Len(fetched) : HasId(events', fetched[j].id)
              /\ UniqueIds(events')
              /\ SubSeq(cachedRanges', 1, Len(cachedRanges)) = cachedRanges
              /\ IF IsExplicit(call.start, call.end)
                   THEN /\ CountRange(cachedRanges', r)
                            = IF CountRange(cachedRanges, r) = 0
                                THEN 1 ELSE CountRange(cachedRanges, r)
                        /\ Len(cachedRanges')
                            = Len(cachedRanges)
                              + (IF CountRange(cachedRanges, r) = 0 THEN 1 ELSE 0)
                   ELSE cachedRanges' = cachedRanges]_vars

(* Two calls succeeded.  The store was set to b, a; the provider then      *)
(* edited a and deleted nothing: a was replaced in place by its new        *)
(* revision behind b, and the one explicit range is recorded once.         *)
C37_Witness ==
  /\ refetch[1].outcome = "merged"
  /\ refetch[2].outcome = "merged"
  /\ events = <<Event("b", 0), Event("a", 1)>>
  /\ cachedRanges = <<Range("d1", "d2")>>

=============================================================================
